---- MODULE Spec2Model ----
(***************************************************************************)
(* State-machine model of the verification-result synthesis pipeline of    *)
(* src/app.py: analyze_authenticity and create_error_response, with its    *)
(* endpoint, the language functions, verify_text_with_llama, and the local *)
(* image analysis of src/image_detector.py.                                *)
(*                                                                         *)
(* Python values that come from outside (reference articles, the decoded   *)
(* JSON of the model answer) are tagged records, one tag per Python type:  *)
(*   [t |-> "absent"]            a key that is not in a dict               *)
(*   [t |-> "null"]              None                                      *)
(*   [t |-> "bool", b |-> ...]   True / False                              *)
(*   [t |-> "int", n |-> ...]    int                                       *)
(*   [t |-> "float", k, w]       float: k = "fin" is the value w + 0.5     *)
(*                               (w >= 0), k = "inf" / "nan" the specials  *)
(*   [t |-> "str", s |-> ...]    str                                       *)
(*   [t |-> "list", l |-> ...]   list (a sequence of tagged values)        *)
(*   [t |-> "dict", d |-> ...]   dict (a record; absent keys are tagged)   *)
(* Records the program builds itself are plain TLA+ records.               *)
(***************************************************************************)
EXTENDS Integers, Sequences, FiniteSets, TLC

VARIABLES
    original_news,      \* argument: the article text
    verified_articles,  \* argument: the list of reference articles
    llm,                \* what ollama.chat does when it is called
    pc,                 \* position inside analyze_authenticity
    verified_contents,  \* local: the non-empty reference contents
    prompt,             \* local: the prompt handed to the model
    model_calls,        \* number of ollama.chat calls made by this call
    response,           \* local: the value ollama.chat returned
    content,            \* local: stripped text of the answer
    json_str,           \* local: content[start:end+1]
    result,             \* local: the decoded JSON object
    analysis,           \* local: the record being filled in
    outcome,            \* how the call ended
    ret,                \* the record returned to the caller
    request,            \* the POST to /analyze_authenticity: JSON data, login, database
    handler,            \* position inside get_authenticity_analysis
    status,             \* HTTP status of the answer
    body,               \* JSON body of the answer
    db_rows,            \* rows committed by db.session.commit()
    calls,              \* calls of analyze_authenticity running side by side
    heap,               \* number of objects allocated for returned records
    MULTILINGUAL_ENABLED, \* module flag: langdetect and deep_translator were imported
    language_call,      \* a call of detect_language or of a translate function
    language_env,       \* what langdetect and GoogleTranslator do when called
    language_pc,        \* position of that call
    language_ret,       \* what that call returned
    text_lang,          \* verify_text_with_llama: argument original_lang
    text_llm,           \* what ollama.chat does when verify_text_with_llama calls it
    text_pc,            \* position inside verify_text_with_llama
    text_response,      \* local: the value ollama.chat returned
    text_content,       \* local: stripped text of the answer
    text_json_str,      \* local: content[start:end+1]
    text_outcome,       \* how verify_text_with_llama ended
    text_ret,           \* the record verify_text_with_llama returned
    image,              \* _fallback_local_analysis: what Pillow finds in image_bytes
    image_pc,           \* position inside _fallback_local_analysis
    image_score,        \* local: score
    image_reasons,      \* local: reasons
    image_ret           \* the record _fallback_local_analysis returned

\* State of the endpoint get_authenticity_analysis.
endpoint_vars == <<request, handler, status, body, db_rows>>

\* State of calls that run side by side.
concurrent_vars == <<calls, heap>>

\* State of a call of the language functions.
language_vars ==
    <<MULTILINGUAL_ENABLED, language_call, language_env, language_pc, language_ret>>

\* State of a call of verify_text_with_llama.
text_vars ==
    <<text_lang, text_llm, text_pc, text_response, text_content, text_json_str,
      text_outcome, text_ret>>

\* State of a call of ImageDetector._fallback_local_analysis.
image_vars == <<image, image_pc, image_score, image_reasons, image_ret>>

\* State of the functions beside analyze_authenticity.
utility_vars == <<language_vars, text_vars, image_vars>>

vars == <<original_news, verified_articles, llm, pc, verified_contents, prompt,
          model_calls, response, content, json_str, result, analysis, outcome, ret,
          endpoint_vars, concurrent_vars, utility_vars>>

(***************************************************************************)
(* Bounds of the model.                                                    *)
(***************************************************************************)
MaxRefs == 3        \* longest reference list
MaxTextLen == 4     \* longest model answer, in tokens
MaxKeys == 2        \* most keys present at once in a decoded dict
MaxOver == 1        \* how far a list may exceed the cap of its field
MaxCalls == 2       \* calls of analyze_authenticity running side by side

(***************************************************************************)
(* Tagged Python values.                                                   *)
(***************************************************************************)
Absent == [t |-> "absent"]
Null == [t |-> "null"]
B(b) == [t |-> "bool", b |-> b]
I(n) == [t |-> "int", n |-> n]
F(k, w) == [t |-> "float", k |-> k, w |-> w]
S(s) == [t |-> "str", s |-> s]
L(l) == [t |-> "list", l |-> l]
D(d) == [t |-> "dict", d |-> d]

Min(a, b) == IF a < b THEN a ELSE b
Max(a, b) == IF a > b THEN a ELSE b

\* The decimal digits of a natural number, as str() prints them.
Digit(n) ==
    CASE n = 0 -> "0" [] n = 1 -> "1" [] n = 2 -> "2" [] n = 3 -> "3"
      [] n = 4 -> "4" [] n = 5 -> "5" [] n = 6 -> "6" [] n = 7 -> "7"
      [] n = 8 -> "8" [] n = 9 -> "9"

RECURSIVE NatStr(_)
NatStr(n) == IF n < 10 THEN Digit(n) ELSE NatStr(n \div 10) \o Digit(n % 10)

IntStr(n) == IF n < 0 THEN "-" \o NatStr(0 - n) ELSE NatStr(n)

\* The strings of the model that int() accepts, with their value.
NumericStrings == {"42", "7"}
StrToInt(s) == CASE s = "42" -> 42 [] s = "7" -> 7

\* The characters of the strings of the model that the program slices.
Chars(s) ==
    CASE s = "" -> <<>>
      [] s = "ab" -> <<"a", "b">>
      [] s = "abcdefg" -> <<"a", "b", "c", "d", "e", "f", "g">>

Ok(v) == [exc |-> "none", v |-> v]
Raise(e) == [exc |-> e]

\* int(v): the value, or the exception int() raises.
PyInt(v) ==
    CASE v.t = "int" -> Ok(v.n)
      [] v.t = "bool" -> Ok(IF v.b THEN 1 ELSE 0)
      [] v.t = "float" ->
            IF v.k = "fin" THEN Ok(v.w)
            ELSE IF v.k = "inf" THEN Raise("OverflowError") ELSE Raise("ValueError")
      [] v.t = "str" ->
            IF v.s \in NumericStrings THEN Ok(StrToInt(v.s)) ELSE Raise("ValueError")
      [] OTHER -> Raise("TypeError")

\* bool(v): Python truthiness.
PyBool(v) ==
    CASE v.t = "null" -> FALSE
      [] v.t = "bool" -> v.b
      [] v.t = "int" -> v.n # 0
      [] v.t = "float" -> TRUE
      [] v.t = "str" -> v.s # ""
      [] v.t = "list" -> v.l # <<>>
      [] v.t = "dict" -> \E k \in DOMAIN v.d : v.d[k].t # "absent"

\* str(v) for the scalar values; a list prints as its bracketed items.
RECURSIVE PyStr(_)
RECURSIVE JoinRepr(_)
PyRepr(v) == IF v.t = "str" THEN "'" \o v.s \o "'" ELSE PyStr(v)
JoinRepr(l) ==
    IF l = <<>> THEN ""
    ELSE IF Len(l) = 1 THEN PyRepr(l[1])
    ELSE PyRepr(l[1]) \o ", " \o JoinRepr(Tail(l))
PyStr(v) ==
    CASE v.t = "str" -> v.s
      [] v.t = "int" -> IntStr(v.n)
      [] v.t = "bool" -> IF v.b THEN "True" ELSE "False"
      [] v.t = "null" -> "None"
      [] v.t = "float" ->
            IF v.k = "fin" THEN NatStr(v.w) \o ".5" ELSE v.k
      [] v.t = "list" -> "[" \o JoinRepr(v.l) \o "]"
      [] v.t = "dict" -> IF PyBool(v) THEN "{...}" ELSE "{}"

\* d.get(k, default) on a tagged dict.
Get(v, k, default) ==
    IF k \in DOMAIN v.d /\ v.d[k].t # "absent" THEN v.d[k] ELSE default

\* The slice that forgets its bound: seq[:].
PrefixUnbounded(seq, n) == seq

\* seq[:n] on a TLA+ sequence.
Prefix(seq, n) == SubSeq(seq, 1, Min(n, Len(seq)))

\* v[:n] followed by iteration: the items visited, or the exception raised.
SliceItems(v, n) ==
    CASE v.t = "list" -> Ok(Prefix(v.l, n))
      [] v.t = "str" -> Ok([i \in 1..Min(n, Len(Chars(v.s))) |-> S(Chars(v.s)[i])])
      [] OTHER -> Raise("TypeError")

(***************************************************************************)
(* Default and error records.                                              *)
(***************************************************************************)
NoRecord == [unset |-> TRUE]

ZeroBreakdown ==
    [factual_accuracy |-> 0, source_consistency |-> 0,
     detail_accuracy |-> 0, context_accuracy |-> 0]

\* The record returned when no reference content is available.
NoReferenceRecord ==
    [authenticity_score |-> 0,
     key_findings |-> <<"No verified sources available for comparison">>,
     differences |-> <<"Unable to verify due to lack of reference content">>,
     supporting_evidence |-> <<[quote |-> "No verified sources found", source |-> "System"]>>,
     score_breakdown |-> ZeroBreakdown]

\* The template with placeholder entries in its lists and "unknown" as type.
AnalysisTemplateWithPlaceholders ==
    [authenticity_score |-> 0,
     key_findings |-> <<"No findings">>,
     differences |-> <<"No differences">>,
     supporting_evidence |-> <<>>,
     score_breakdown |-> ZeroBreakdown,
     claims_analysis |-> <<>>,
     bias_detection |-> [detected |-> FALSE, type |-> "unknown", indicators |-> <<>>],
     emotional_manipulation |-> [detected |-> FALSE, tactics |-> <<>>, examples |-> <<>>],
     sensational_tone |-> [detected |-> FALSE, score |-> 0, indicators |-> <<>>]]

\* The template every normalized record starts from.
AnalysisTemplate ==
    [authenticity_score |-> 0,
     key_findings |-> <<>>,
     differences |-> <<>>,
     supporting_evidence |-> <<>>,
     score_breakdown |-> ZeroBreakdown,
     claims_analysis |-> <<>>,
     bias_detection |-> [detected |-> FALSE, type |-> "none", indicators |-> <<>>],
     emotional_manipulation |-> [detected |-> FALSE, tactics |-> <<>>, examples |-> <<>>],
     sensational_tone |-> [detected |-> FALSE, score |-> 0, indicators |-> <<>>]]

\* The error record built from the empty template: only key_findings is set.
create_error_response_from_template(error_message) ==
    [authenticity_score |-> 0,
     key_findings |-> <<error_message>>,
     differences |-> <<>>,
     supporting_evidence |-> <<>>,
     score_breakdown |-> ZeroBreakdown,
     claims_analysis |-> <<>>,
     bias_detection |-> [detected |-> FALSE, type |-> "none", indicators |-> <<>>],
     emotional_manipulation |-> [detected |-> FALSE, tactics |-> <<>>, examples |-> <<>>],
     sensational_tone |-> [detected |-> FALSE, score |-> 0, indicators |-> <<>>]]

create_error_response(error_message) ==
    [authenticity_score |-> 0,
     key_findings |-> <<error_message>>,
     differences |-> <<"Analysis failed">>,
     supporting_evidence |-> <<[quote |-> "Error processing request", source |-> "System"]>>,
     score_breakdown |-> ZeroBreakdown,
     claims_analysis |-> <<>>,
     bias_detection |-> [detected |-> FALSE, type |-> "none", indicators |-> <<>>],
     emotional_manipulation |-> [detected |-> FALSE, tactics |-> <<>>, examples |-> <<>>],
     sensational_tone |-> [detected |-> FALSE, score |-> 0, indicators |-> <<>>]]

\* The message of the outer handler: "Analysis failed: " followed by str(e),
\* which the model abbreviates to the name of the exception.
AnalysisFailed(e) == "Analysis failed: " \o e

(***************************************************************************)
(* Reference filtering and the prompt.                                     *)
(***************************************************************************)
RefCap == 3

\* [article['content'] for article in verified_articles if article['content']]
RECURSIVE FilterContents(_)
FilterContents(articles) ==
    IF articles = <<>> THEN Ok(<<>>)
    ELSE LET c == articles[1].d.content
             rest == FilterContents(Tail(articles))
         IN IF c.t = "absent" THEN Raise("KeyError")
            ELSE IF rest.exc # "none" THEN rest
            ELSE IF PyBool(c) THEN Ok(<<c>> \o rest.v) ELSE rest

\* ' '.join(items): the joined text, or TypeError for an item that is no str.
RECURSIVE JoinContents(_)
JoinContents(items) ==
    IF items = <<>> THEN Ok("")
    ELSE LET rest == JoinContents(Tail(items))
         IN IF items[1].t # "str" THEN Raise("TypeError")
            ELSE IF rest.exc # "none" THEN rest
            ELSE IF Len(items) = 1 THEN Ok(items[1].s)
            ELSE Ok(items[1].s \o " " \o rest.v)

BuildPromptText(news, contents) ==
    LET joined == JoinContents(Prefix(contents, RefCap))
    IN IF joined.exc # "none" THEN joined
       ELSE Ok([original |-> news, trusted |-> joined.v])

(***************************************************************************)
(* The model answer: a sequence of tokens.  "s" is white space, "w" a word *)
(* of prose, "{" and "}" the braces, and "m" the text of the members of    *)
(* the JSON object the answer carries (llm.payload).                       *)
(***************************************************************************)
IsSpace(tok) == tok = "s"

RECURSIVE LStrip(_)
LStrip(text) ==
    IF text # <<>> /\ IsSpace(text[1]) THEN LStrip(Tail(text)) ELSE text

RECURSIVE RStrip(_)
RStrip(text) ==
    IF text # <<>> /\ IsSpace(text[Len(text)])
    THEN RStrip(SubSeq(text, 1, Len(text) - 1)) ELSE text

\* text.strip()
Strip(text) == RStrip(LStrip(text))

\* text.find(tok): zero-based index of the first occurrence, or -1.
Find(text, tok) ==
    IF \E i \in 1..Len(text) : text[i] = tok
    THEN (CHOOSE i \in 1..Len(text) :
             text[i] = tok /\ \A j \in 1..(i - 1) : text[j] # tok) - 1
    ELSE -1

\* find used where rfind is meant: the first occurrence instead of the last.
RFindFirst(text, tok) == Find(text, tok)

\* text.rfind(tok): zero-based index of the last occurrence, or -1.
RFind(text, tok) ==
    IF \E i \in 1..Len(text) : text[i] = tok
    THEN (CHOOSE i \in 1..Len(text) :
             text[i] = tok /\ \A j \in (i + 1)..Len(text) : text[j] # tok) - 1
    ELSE -1

\* text[start:stop] for start, stop >= 0.
PySlice(text, start, stop) == SubSeq(text, start + 1, Min(stop, Len(text)))

EmptyObject ==
    D([authenticity_score |-> Absent, key_findings |-> Absent, differences |-> Absent,
       supporting_evidence |-> Absent, score_breakdown |-> Absent,
       claims_analysis |-> Absent, bias_detection |-> Absent,
       emotional_manipulation |-> Absent, sensational_tone |-> Absent])

\* json.loads(text): white space between tokens is skipped; the text decodes
\* when it is one object, "{" members "}" or "{" "}".
JsonLoads(text, payload) ==
    LET core == SelectSeq(text, LAMBDA tok : ~IsSpace(tok))
    IN IF core = <<"{", "m", "}">> THEN Ok(payload)
       ELSE IF core = <<"{", "}">> THEN Ok(EmptyObject)
       ELSE Raise("JSONDecodeError")

(***************************************************************************)
(* The normalizer, field by field.  Each operator gives the new value of   *)
(* the field of analysis (Ok), or the exception that leaves the inner      *)
(* handlers and reaches the outer "except Exception" (Raise).              *)
(***************************************************************************)
ListCap == 3
ClaimCap == 10
IndicatorCap == 5
DefaultConfidence == 50

\* Clamp without its lower bound: min(hi, v).
ClampUpperOnly(lo, hi, v) == Min(hi, v)

Clamp(lo, hi, v) == Max(lo, Min(hi, v))

\* except (ValueError, TypeError): pass
CaughtLocally(e) == e \in {"ValueError", "TypeError"}

\* [repr(x) for x in items]: repr used where str is meant.
StrListRepr(items) == [i \in 1..Len(items) |-> PyRepr(items[i])]

\* [str(x) for x in items]
StrList(items) == [i \in 1..Len(items) |-> PyStr(items[i])]

\* lines 662-666
NormScore(res, an) ==
    LET score == PyInt(Get(res, "authenticity_score", I(0)))
    IN IF score.exc = "none" THEN Ok(Clamp(0, 100, score.v))
       ELSE IF CaughtLocally(score.exc) THEN Ok(an.authenticity_score)
       ELSE score

\* lines 669-671
NormFindings(res, an) ==
    LET findings == Get(res, "key_findings", L(<<>>))
    IN IF findings.t = "list" THEN Ok(StrList(Prefix(findings.l, ListCap)))
       ELSE Ok(an.key_findings)

\* lines 674-676
NormDifferences(res, an) ==
    LET differences == Get(res, "differences", L(<<>>))
    IN IF differences.t = "list" THEN Ok(StrList(Prefix(differences.l, ListCap)))
       ELSE Ok(an.differences)

\* The entry with the empty string as the default of both keys.
EvidenceEntryEmptyDefault(item) ==
    [quote |-> PyStr(Get(item, "quote", S(""))),
     source |-> PyStr(Get(item, "source", S("")))]

\* lines 683-686
EvidenceEntry(item) ==
    [quote |-> PyStr(Get(item, "quote", S(""))),
     source |-> PyStr(Get(item, "source", S("Unknown")))]

\* for item in items: if isinstance(item, dict): append(...)
RECURSIVE EvidenceEntries(_)
EvidenceEntries(items) ==
    IF items = <<>> THEN <<>>
    ELSE IF items[1].t = "dict"
         THEN <<EvidenceEntry(items[1])>> \o EvidenceEntries(Tail(items))
         ELSE EvidenceEntries(Tail(items))

\* The evidence with the non-objects dropped first and the cut made after.
NormEvidenceFilteredFirst(res, an) ==
    LET evidence == Get(res, "supporting_evidence", L(<<>>))
    IN IF evidence.t = "list"
       THEN Ok(an.supporting_evidence \o Prefix(EvidenceEntries(evidence.l), ListCap))
       ELSE Ok(an.supporting_evidence)

\* lines 679-686
NormEvidence(res, an) ==
    LET evidence == Get(res, "supporting_evidence", L(<<>>))
    IN IF evidence.t = "list"
       THEN Ok(an.supporting_evidence \o EvidenceEntries(Prefix(evidence.l, ListCap)))
       ELSE Ok(an.supporting_evidence)

\* The first exception of a sequence of conversions made in order, or "none".
RECURSIVE FirstExc(_)
FirstExc(rs) ==
    IF rs = <<>> THEN "none"
    ELSE IF rs[1].exc # "none" THEN rs[1].exc ELSE FirstExc(Tail(rs))

\* lines 689-699
NormBreakdown(res, an) ==
    LET breakdown == Get(res, "score_breakdown", D(<<>>))
    IN IF breakdown.t # "dict" THEN Ok(an.score_breakdown)
       ELSE LET fa == PyInt(Get(breakdown, "factual_accuracy", I(0)))
                sc == PyInt(Get(breakdown, "source_consistency", I(0)))
                da == PyInt(Get(breakdown, "detail_accuracy", I(0)))
                ca == PyInt(Get(breakdown, "context_accuracy", I(0)))
                e == FirstExc(<<fa, sc, da, ca>>)
            IN IF e = "none"
               THEN Ok([factual_accuracy |-> Clamp(0, 40, fa.v),
                        source_consistency |-> Clamp(0, 30, sc.v),
                        detail_accuracy |-> Clamp(0, 20, da.v),
                        context_accuracy |-> Clamp(0, 10, ca.v)])
               ELSE IF CaughtLocally(e) THEN Ok(an.score_breakdown)
               ELSE Raise(e)

\* The entry of one claim with the classification checked against the
\* enumeration: a value outside it is replaced by "unverified".
ClaimEntryValidated(claim) ==
    LET confidence == PyInt(Get(claim, "confidence", I(DefaultConfidence)))
        given == PyStr(Get(claim, "classification", S("unverified")))
    IN IF confidence.exc # "none" THEN confidence
       ELSE Ok([claim |-> PyStr(Get(claim, "claim", S(""))),
                classification |->
                   IF given \in {"verified_true", "misleading", "false", "unverified"}
                   THEN given ELSE "unverified",
                explanation |-> PyStr(Get(claim, "explanation", S(""))),
                corrected_statement |-> PyStr(Get(claim, "corrected_statement", S(""))),
                confidence |-> Clamp(0, 100, confidence.v)])

\* lines 706-712: the entry of one claim, or the exception of its int().
ClaimEntry(claim) ==
    LET confidence == PyInt(Get(claim, "confidence", I(DefaultConfidence)))
    IN IF confidence.exc # "none" THEN confidence
       ELSE Ok([claim |-> PyStr(Get(claim, "claim", S(""))),
                classification |-> PyStr(Get(claim, "classification", S("unverified"))),
                explanation |-> PyStr(Get(claim, "explanation", S(""))),
                corrected_statement |-> PyStr(Get(claim, "corrected_statement", S(""))),
                confidence |-> Clamp(0, 100, confidence.v)])

\* for claim in claims: if isinstance(claim, dict): append(...)
RECURSIVE ClaimEntries(_)
ClaimEntries(claims) ==
    IF claims = <<>> THEN Ok(<<>>)
    ELSE IF claims[1].t # "dict" THEN ClaimEntries(Tail(claims))
    ELSE LET first == ClaimEntry(claims[1])
         IN IF first.exc # "none" THEN first
            ELSE LET rest == ClaimEntries(Tail(claims))
                 IN IF rest.exc # "none" THEN rest ELSE Ok(<<first.v>> \o rest.v)

\* lines 702-712
NormClaims(res, an) ==
    LET claims == Get(res, "claims_analysis", L(<<>>))
    IN IF claims.t # "list" THEN Ok(an.claims_analysis)
       ELSE LET entries == ClaimEntries(Prefix(claims.l, ClaimCap))
            IN IF entries.exc # "none" THEN entries
               ELSE Ok(an.claims_analysis \o entries.v)

\* [str(i) for i in d.get(key, [])[:5]]
StrItems(d, key) ==
    LET items == SliceItems(Get(d, key, L(<<>>)), IndicatorCap)
    IN IF items.exc # "none" THEN items ELSE Ok(StrList(items.v))

\* lines 715-721
NormBias(res, an) ==
    LET bias == Get(res, "bias_detection", D(<<>>))
    IN IF bias.t # "dict" THEN Ok(an.bias_detection)
       ELSE LET indicators == StrItems(bias, "indicators")
            IN IF indicators.exc # "none" THEN indicators
               ELSE Ok([detected |-> PyBool(Get(bias, "detected", B(FALSE))),
                        type |-> PyStr(Get(bias, "type", S("none"))),
                        indicators |-> indicators.v])

\* lines 724-730
NormEmotional(res, an) ==
    LET emotional == Get(res, "emotional_manipulation", D(<<>>))
    IN IF emotional.t # "dict" THEN Ok(an.emotional_manipulation)
       ELSE LET tactics == StrItems(emotional, "tactics")
                examples == StrItems(emotional, "examples")
                e == FirstExc(<<tactics, examples>>)
            IN IF e # "none" THEN Raise(e)
               ELSE Ok([detected |-> PyBool(Get(emotional, "detected", B(FALSE))),
                        tactics |-> tactics.v,
                        examples |-> examples.v])

\* lines 733-739
NormSensational(res, an) ==
    LET sensational == Get(res, "sensational_tone", D(<<>>))
    IN IF sensational.t # "dict" THEN Ok(an.sensational_tone)
       ELSE LET score == PyInt(Get(sensational, "score", I(0)))
                indicators == StrItems(sensational, "indicators")
                e == FirstExc(<<score, indicators>>)
            IN IF e # "none" THEN Raise(e)
               ELSE Ok([detected |-> PyBool(Get(sensational, "detected", B(FALSE))),
                        score |-> Clamp(0, 100, score.v),
                        indicators |-> indicators.v])

\* The fields of analysis in the order in which the code fills them in.
Fields == <<"authenticity_score", "key_findings", "differences", "supporting_evidence",
            "score_breakdown", "claims_analysis", "bias_detection",
            "emotional_manipulation", "sensational_tone">>

NormField(field, res, an) ==
    CASE field = "authenticity_score" -> NormScore(res, an)
      [] field = "key_findings" -> NormFindings(res, an)
      [] field = "differences" -> NormDifferences(res, an)
      [] field = "supporting_evidence" -> NormEvidence(res, an)
      [] field = "score_breakdown" -> NormBreakdown(res, an)
      [] field = "claims_analysis" -> NormClaims(res, an)
      [] field = "bias_detection" -> NormBias(res, an)
      [] field = "emotional_manipulation" -> NormEmotional(res, an)
      [] field = "sensational_tone" -> NormSensational(res, an)

\* Lines 632-741 run from field number i on: the finished analysis, or the
\* first exception that reaches the outer handler.
RECURSIVE NormalizeFrom(_, _, _)
NormalizeFrom(res, an, i) ==
    IF i > Len(Fields) THEN Ok(an)
    ELSE LET r == NormField(Fields[i], res, an)
         IN IF r.exc # "none" THEN r
            ELSE NormalizeFrom(res, [an EXCEPT ![Fields[i]] = r.v], i + 1)

\* The record analyze_authenticity returns for the decoded object res.
Normalized(res) ==
    LET r == NormalizeFrom(res, AnalysisTemplate, 1)
    IN IF r.exc # "none" THEN create_error_response(AnalysisFailed(r.exc)) ELSE r.v

\* Lines 620-746 as a function of the answer text: the record returned for
\* the text when the JSON object it carries is payload.
RecordForText(text, payload) ==
    LET stripped == Strip(text)
        start == Find(stripped, "{")
        end == RFind(stripped, "}")
    IN IF start # -1 /\ end # -1
       THEN LET decoded == JsonLoads(PySlice(stripped, start, end + 1), payload)
            IN IF decoded.exc # "none"
               THEN create_error_response("Failed to parse LLM response")
               ELSE Normalized(decoded.v)
       ELSE create_error_response("Could not find JSON in LLM response")

(***************************************************************************)
(* The inputs of a call.                                                   *)
(***************************************************************************)
\* The dicts over the keys ks (a sequence) with at most n keys present,
\* the value of a present key k drawn from vals[k].
RECURSIVE SparseDicts(_, _, _)
SparseDicts(ks, n, vals) ==
    IF ks = <<>> THEN {<<>>}
    ELSE LET k == ks[1]
             without == {(k :> Absent) @@ r : r \in SparseDicts(Tail(ks), n, vals)}
             with == IF n = 0 THEN {}
                     ELSE {(k :> v) @@ r : v \in vals[k], r \in SparseDicts(Tail(ks), n - 1, vals)}
         IN without \cup with

\* The lists of at most cap + MaxOver items whose items are the well-formed
\* normals[i], except for at most one item, which is drawn from specials.
PatternLists(cap, normals, specials) ==
    {L([i \in 1..n |-> normals[i]]) : n \in 0..(cap + MaxOver)}
    \cup UNION {{L([i \in 1..n |-> IF i = p THEN sp ELSE normals[i]]) : sp \in specials} :
                    n \in 1..(cap + MaxOver), p \in 1..(cap + MaxOver)}

Ints == {I(-5), I(0), I(7), I(15), I(35), I(100), I(999), I(1000)}
NonInts == {S("42"), S("high"), Null, B(TRUE), F("fin", 99), F("inf", 0), F("nan", 0), L(<<>>)}
SubScores == {I(-5), I(7), I(35), I(1000), S("42"), S("high"), Null, F("inf", 0)}
Flags == {B(TRUE), B(FALSE), I(0), I(1), S(""), S("false"), L(<<>>), L(<<I(1)>>), Null}

NormalText(prefix, i) == S(prefix \o NatStr(i))
NormalFinding(i) == NormalText("f", i)
NormalIndicator(i) == NormalText("i", i)
NormalEvidence(i) == D([quote |-> NormalText("q", i), source |-> NormalText("src", i)])
NormalClaim(i) ==
    D([claim |-> NormalText("c", i), classification |-> S("misleading"),
       explanation |-> S("why"), corrected_statement |-> S("fix"),
       confidence |-> I(80)])

NormalFindings == [i \in 1..(ListCap + MaxOver) |-> NormalFinding(i)]
NormalIndicators == [i \in 1..(IndicatorCap + MaxOver) |-> NormalIndicator(i)]
NormalEvidences == [i \in 1..(ListCap + MaxOver) |-> NormalEvidence(i)]
NormalClaims == [i \in 1..(ClaimCap + MaxOver) |-> NormalClaim(i)]

SpecialItems == {I(1), Null, B(TRUE), L(<<S("x")>>)}
SpecialEvidence ==
    {I(1), S("x"),
     D([quote |-> Absent, source |-> Absent]),
     D([quote |-> I(5), source |-> Null]),
     D([quote |-> S("q"), source |-> Absent])}
ClaimWith(classification, confidence) ==
    D([claim |-> S("x"), classification |-> classification, explanation |-> Absent,
       corrected_statement |-> Absent, confidence |-> confidence])
SpecialClaims ==
    {I(1), Null,
     ClaimWith(S("misleading"), S("high")),
     ClaimWith(S("bogus"), I(150)),
     ClaimWith(Absent, Absent),
     ClaimWith(I(3), I(-5))}

NonLists == {Null, S("ab"), I(5)}
NonDicts == {Null, L(<<>>), I(1)}

BreakdownKeys == <<"factual_accuracy", "source_consistency", "detail_accuracy", "context_accuracy">>
BreakdownVals == [k \in {"factual_accuracy", "source_consistency", "detail_accuracy",
                         "context_accuracy"} |-> SubScores]

PlainLists == {L([i \in 1..n |-> NormalIndicator(i)]) : n \in 0..(IndicatorCap + MaxOver)}
IndicatorVals == PatternLists(IndicatorCap, NormalIndicators, {I(1)})
                 \cup {S("abcdefg"), S("ab"), I(5), Null}
TacticVals == PlainLists \cup {S("ab"), I(5)}

BiasKeys == <<"detected", "type", "indicators">>
BiasVals == [k \in {"detected", "type", "indicators"} |->
                CASE k = "detected" -> Flags
                  [] k = "type" -> {S("political"), I(3), Null}
                  [] k = "indicators" -> IndicatorVals]
EmotionalKeys == <<"detected", "tactics", "examples">>
EmotionalVals == [k \in {"detected", "tactics", "examples"} |->
                    IF k = "detected" THEN Flags ELSE TacticVals]
SensationalKeys == <<"detected", "score", "indicators">>
SensationalVals == [k \in {"detected", "score", "indicators"} |->
                      CASE k = "detected" -> Flags
                        [] k = "score" -> SubScores
                        [] k = "indicators" -> TacticVals]

DictsOf(keys, vals) == {D(d) : d \in SparseDicts(keys, MaxKeys, vals)}

TopKeys == <<"authenticity_score", "key_findings", "differences", "supporting_evidence",
             "score_breakdown", "claims_analysis", "bias_detection",
             "emotional_manipulation", "sensational_tone">>
TopKeySet == {TopKeys[i] : i \in 1..Len(TopKeys)}

\* The values of a key when it is the only key present in the object.
RichVals ==
    [k \in TopKeySet |->
        CASE k = "authenticity_score" -> Ints \cup NonInts
          [] k = "key_findings" -> PatternLists(ListCap, NormalFindings, SpecialItems) \cup NonLists
          [] k = "differences" -> PatternLists(ListCap, NormalFindings, SpecialItems) \cup NonLists
          [] k = "supporting_evidence" ->
                PatternLists(ListCap, NormalEvidences, SpecialEvidence) \cup NonLists
          [] k = "score_breakdown" -> DictsOf(BreakdownKeys, BreakdownVals) \cup NonDicts
          [] k = "claims_analysis" ->
                PatternLists(ClaimCap, NormalClaims, SpecialClaims) \cup NonLists
          [] k = "bias_detection" -> DictsOf(BiasKeys, BiasVals) \cup NonDicts
          [] k = "emotional_manipulation" -> DictsOf(EmotionalKeys, EmotionalVals) \cup NonDicts
          [] k = "sensational_tone" -> DictsOf(SensationalKeys, SensationalVals) \cup NonDicts]

ScoresOnly(fa, sc) ==
    D([factual_accuracy |-> fa, source_consistency |-> sc,
       detail_accuracy |-> Absent, context_accuracy |-> Absent])

\* The values of a key when it appears together with other keys.
CoreVals ==
    [k \in TopKeySet |->
        CASE k = "authenticity_score" -> {I(999), I(35), S("high"), F("inf", 0)}
          [] k = "key_findings" ->
                {L([i \in 1..(ListCap + MaxOver) |-> NormalFinding(i)]), L(<<I(1)>>), Null}
          [] k = "differences" -> {L(<<S("d1")>>), S("ab")}
          [] k = "supporting_evidence" ->
                {L(<<I(1), NormalEvidence(2)>>), L(<<D([quote |-> S("q"), source |-> Absent])>>)}
          [] k = "score_breakdown" ->
                {ScoresOnly(I(1000), I(-5)), ScoresOnly(I(35), S("high")),
                 ScoresOnly(F("inf", 0), Absent), Null}
          [] k = "claims_analysis" ->
                {L(<<NormalClaim(1), ClaimWith(S("false"), S("high")), NormalClaim(3)>>),
                 L(<<NormalClaim(1), I(1), ClaimWith(S("bogus"), I(150))>>), I(5)}
          [] k = "bias_detection" ->
                {D([detected |-> S("false"), type |-> S("political"), indicators |-> L(<<S("i1")>>)]),
                 D([detected |-> B(TRUE), type |-> Absent, indicators |-> I(5)])}
          [] k = "emotional_manipulation" ->
                {D([detected |-> B(TRUE), tactics |-> L(<<S("fear")>>), examples |-> Absent]),
                 D([detected |-> Absent, tactics |-> Absent, examples |-> Null])}
          [] k = "sensational_tone" ->
                {D([detected |-> I(1), score |-> I(150), indicators |-> Absent]),
                 D([detected |-> Absent, score |-> S("high"), indicators |-> Absent])}]

\* The JSON objects the model answer may carry.
Candidates ==
    {D(d) : d \in SparseDicts(TopKeys, 1, RichVals) \cup SparseDicts(TopKeys, MaxKeys, CoreVals)}

GoodPayload ==
    D([authenticity_score |-> I(999),
       key_findings |-> L(<<S("a"), S("b"), S("c"), S("d")>>),
       differences |-> Absent, supporting_evidence |-> Absent,
       score_breakdown |-> ScoresOnly(I(1000), I(-5)),
       claims_analysis |-> L(<<NormalClaim(1)>>),
       bias_detection |-> Absent, emotional_manipulation |-> Absent,
       sensational_tone |-> Absent])

BadPayload ==
    D([authenticity_score |-> I(35),
       key_findings |-> Absent, differences |-> Absent, supporting_evidence |-> Absent,
       score_breakdown |-> Absent,
       claims_analysis |-> L(<<ClaimWith(S("false"), S("high"))>>),
       bias_detection |-> Absent, emotional_manipulation |-> Absent,
       sensational_tone |-> Absent])

Tokens == {"s", "w", "{", "}", "m"}
Texts == UNION {[1..n -> Tokens] : n \in 0..MaxTextLen}
JsonText == <<"w", "s", "{", "m", "}", "w">>

\* What ollama.chat does: it raises, returns a response envelope, or never
\* returns (the server accepts the request and does not answer).
EnvelopeKinds == {"raises", "none", "no_message", "bad_message", "no_content",
                  "content_null", "text", "no_answer"}
Reply(kind, text, payload) == [kind |-> kind, text |-> text, payload |-> payload]

Contents == {Absent, Null, S(""), S("a"), S("b"), I(7)}
Article(c) == D([content |-> c])
RefLists == UNION {[1..n -> {Article(c) : c \in Contents}] : n \in 0..MaxRefs}
OneRef == <<Article(S("a"))>>

\* The calls of the model: every reference list with a few answers, every
\* answer text with a few objects, and every object in one answer text.
Scenarios ==
    {[refs |-> r, llm |-> Reply("text", JsonText, p)] :
        r \in RefLists, p \in {GoodPayload}}
    \cup {[refs |-> OneRef, llm |-> Reply(k, <<>>, GoodPayload)] :
        k \in EnvelopeKinds \ {"text"}}
    \cup {[refs |-> OneRef, llm |-> Reply("text", t, p)] :
        t \in Texts, p \in {GoodPayload, BadPayload}}
    \cup {[refs |-> OneRef, llm |-> Reply("text", JsonText, p)] : p \in Candidates}

\* No call of the functions beside analyze_authenticity is under way.
LanguageIdle ==
    /\ MULTILINGUAL_ENABLED = TRUE
    /\ language_call = NoRecord
    /\ language_env = NoRecord
    /\ language_pc = "idle"
    /\ language_ret = NoRecord

\* No call of verify_text_with_llama is under way.
TextIdle ==
    /\ text_lang = "en"
    /\ text_llm = NoRecord
    /\ text_pc = "idle"
    /\ text_response = NoRecord
    /\ text_content = <<>>
    /\ text_json_str = <<>>
    /\ text_outcome = "pending"
    /\ text_ret = NoRecord

\* No call of _fallback_local_analysis is under way.
ImageIdle ==
    /\ image = NoRecord
    /\ image_pc = "idle"
    /\ image_score = 0
    /\ image_reasons = <<>>
    /\ image_ret = NoRecord

UtilitiesIdle == LanguageIdle /\ TextIdle /\ ImageIdle

(***************************************************************************)
(* analyze_authenticity, step by step.                                     *)
(***************************************************************************)
Init ==
    /\ \E sc \in Scenarios :
          /\ verified_articles = sc.refs
          /\ llm = sc.llm
    /\ original_news = "news"
    /\ pc = "start"
    /\ verified_contents = <<>>
    /\ prompt = NoRecord
    /\ model_calls = 0
    /\ response = NoRecord
    /\ content = <<>>
    /\ json_str = <<>>
    /\ result = NoRecord
    /\ analysis = NoRecord
    /\ outcome = "pending"
    /\ ret = NoRecord
    /\ request = NoRecord
    /\ handler = "direct"
    /\ status = 0
    /\ body = NoRecord
    /\ db_rows = <<>>
    /\ calls = <<>>
    /\ heap = 0
    /\ UtilitiesIdle

\* return record
Return(how, record) ==
    /\ pc' = "done"
    /\ outcome' = how
    /\ ret' = record

\* An exception that no handler of analyze_authenticity catches.
Propagate(e) ==
    /\ pc' = "done"
    /\ outcome' = "raised"
    /\ ret' = NoRecord

\* The function without its outer handler: the exception reaches the caller.
HandleExceptionAbsent(e) == Propagate(e)

\* except Exception as e: return create_error_response(f"Analysis failed: {str(e)}")
HandleException(e) == Return("error", create_error_response(AnalysisFailed(e)))

\* line 517
FilterReferences ==
    /\ pc = "start"
    /\ LET contents == FilterContents(verified_articles)
       IN IF contents.exc # "none"
          THEN /\ Propagate(contents.exc)
               /\ UNCHANGED verified_contents
          ELSE /\ verified_contents' = contents.v
               /\ pc' = "check_refs"
               /\ UNCHANGED <<outcome, ret>>
    /\ UNCHANGED <<endpoint_vars, concurrent_vars, utility_vars,
                   original_news, verified_articles, llm, prompt, model_calls,
                   response, content, json_str, result, analysis>>

\* lines 519-531
ShortCircuit ==
    /\ pc = "check_refs"
    /\ verified_contents = <<>>
    /\ Return("short_circuit", NoReferenceRecord)
    /\ UNCHANGED <<endpoint_vars, concurrent_vars, utility_vars,
                   original_news, verified_articles, llm, verified_contents, prompt,
                   model_calls, response, content, json_str, result, analysis>>

\* BuildPrompt without the test of line 519: the prompt is built from
\* whatever contents there are.
BuildPromptUnguarded ==
    /\ pc = "check_refs"
    /\ LET built == BuildPromptText(original_news, verified_contents)
       IN IF built.exc # "none"
          THEN /\ Propagate(built.exc)
               /\ UNCHANGED prompt
          ELSE /\ prompt' = built.v
               /\ pc' = "invoke"
               /\ UNCHANGED <<outcome, ret>>
    /\ UNCHANGED <<endpoint_vars, concurrent_vars, utility_vars,
                   original_news, verified_articles, llm, verified_contents,
                   model_calls, response, content, json_str, result, analysis>>

\* lines 534-601
BuildPrompt ==
    /\ pc = "check_refs"
    /\ verified_contents # <<>>
    /\ LET built == BuildPromptText(original_news, verified_contents)
       IN IF built.exc # "none"
          THEN /\ Propagate(built.exc)
               /\ UNCHANGED prompt
          ELSE /\ prompt' = built.v
               /\ pc' = "invoke"
               /\ UNCHANGED <<outcome, ret>>
    /\ UNCHANGED <<endpoint_vars, concurrent_vars, utility_vars,
                   original_news, verified_articles, llm, verified_contents,
                   model_calls, response, content, json_str, result, analysis>>

\* The model call in a retry loop: a raising call is attempted again.
InvokeModelRetrying ==
    /\ pc = "invoke"
    /\ model_calls' = model_calls + 1
    /\ IF llm.kind = "raises"
       THEN /\ IF model_calls = 0
               THEN UNCHANGED <<pc, outcome, ret>>
               ELSE HandleException("ConnectionError")
            /\ UNCHANGED response
       ELSE IF llm.kind = "no_answer"
       THEN /\ pc' = "blocked"
            /\ UNCHANGED <<response, outcome, ret>>
       ELSE /\ response' = [kind |-> llm.kind, text |-> llm.text]
            /\ pc' = "envelope"
            /\ UNCHANGED <<outcome, ret>>
    /\ UNCHANGED <<endpoint_vars, concurrent_vars, utility_vars,
                   original_news, verified_articles, llm, verified_contents, prompt,
                   content, json_str, result, analysis>>

\* lines 605-614: ollama.chat is called without a timeout; while the model
\* does not answer the call stays inside it (pc = "blocked").
InvokeModel ==
    /\ pc = "invoke"
    /\ model_calls' = model_calls + 1
    /\ IF llm.kind = "raises"
       THEN /\ HandleException("ConnectionError")
            /\ UNCHANGED response
       ELSE IF llm.kind = "no_answer"
       THEN /\ pc' = "blocked"
            /\ UNCHANGED <<response, outcome, ret>>
       ELSE /\ response' = [kind |-> llm.kind, text |-> llm.text]
            /\ pc' = "envelope"
            /\ UNCHANGED <<outcome, ret>>
    /\ UNCHANGED <<endpoint_vars, concurrent_vars, utility_vars,
                   original_news, verified_articles, llm, verified_contents, prompt,
                   content, json_str, result, analysis>>

\* lines 617-620
ReadContent ==
    /\ pc = "envelope"
    /\ IF response.kind \in {"none", "no_message", "no_content"}
       THEN /\ Return("error", create_error_response("Invalid response from LLM"))
            /\ UNCHANGED content
       ELSE IF response.kind = "bad_message"
       THEN /\ HandleException("TypeError")
            /\ UNCHANGED content
       ELSE IF response.kind = "content_null"
       THEN /\ HandleException("AttributeError")
            /\ UNCHANGED content
       ELSE /\ content' = Strip(response.text)
            /\ pc' = "locate"
            /\ UNCHANGED <<outcome, ret>>
    /\ UNCHANGED <<endpoint_vars, concurrent_vars, utility_vars,
                   original_news, verified_articles, llm, verified_contents, prompt,
                   model_calls, response, json_str, result, analysis>>

\* lines 625-628 and 742-743
LocateJson ==
    /\ pc = "locate"
    /\ LET start == Find(content, "{")
           end == RFind(content, "}")
       IN IF start # -1 /\ end # -1
          THEN /\ json_str' = PySlice(content, start, end + 1)
               /\ pc' = "decode"
               /\ UNCHANGED <<outcome, ret>>
          ELSE /\ Return("error", create_error_response("Could not find JSON in LLM response"))
               /\ UNCHANGED json_str
    /\ UNCHANGED <<endpoint_vars, concurrent_vars, utility_vars,
                   original_news, verified_articles, llm, verified_contents, prompt,
                   model_calls, response, content, result, analysis>>

\* The decode step without the "except json.JSONDecodeError" clause: the
\* decode error reaches the general handler.
DecodeJsonUnhandled ==
    /\ pc = "decode"
    /\ LET decoded == JsonLoads(json_str, llm.payload)
       IN IF decoded.exc # "none"
          THEN /\ HandleException(decoded.exc)
               /\ UNCHANGED <<result, analysis>>
          ELSE /\ result' = decoded.v
               /\ analysis' = AnalysisTemplate
               /\ pc' = "authenticity_score"
               /\ UNCHANGED <<outcome, ret>>
    /\ UNCHANGED <<endpoint_vars, concurrent_vars, utility_vars,
                   original_news, verified_articles, llm, verified_contents, prompt,
                   model_calls, response, content, json_str>>

\* lines 629-659 and 745-746
DecodeJson ==
    /\ pc = "decode"
    /\ LET decoded == JsonLoads(json_str, llm.payload)
       IN IF decoded.exc # "none"
          THEN /\ Return("error", create_error_response("Failed to parse LLM response"))
               /\ UNCHANGED <<result, analysis>>
          ELSE /\ result' = decoded.v
               /\ analysis' = AnalysisTemplate
               /\ pc' = "authenticity_score"
               /\ UNCHANGED <<outcome, ret>>
    /\ UNCHANGED <<endpoint_vars, concurrent_vars, utility_vars,
                   original_news, verified_articles, llm, verified_contents, prompt,
                   model_calls, response, content, json_str>>

\* One field of analysis is filled in from result, or the exception of the
\* conversion reaches the outer handler.
ExtractField(field, next) ==
    /\ pc = field
    /\ LET r == NormField(field, result, analysis)
       IN IF r.exc # "none"
          THEN /\ HandleException(r.exc)
               /\ UNCHANGED analysis
          ELSE /\ analysis' = [analysis EXCEPT ![field] = r.v]
               /\ pc' = next
               /\ UNCHANGED <<outcome, ret>>
    /\ UNCHANGED <<endpoint_vars, concurrent_vars, utility_vars,
                   original_news, verified_articles, llm, verified_contents, prompt,
                   model_calls, response, content, json_str, result>>

ExtractScore == ExtractField("authenticity_score", "key_findings")
ExtractFindings == ExtractField("key_findings", "differences")
ExtractDifferences == ExtractField("differences", "supporting_evidence")
ExtractEvidence == ExtractField("supporting_evidence", "score_breakdown")
ExtractBreakdown == ExtractField("score_breakdown", "claims_analysis")
ExtractClaims == ExtractField("claims_analysis", "bias_detection")
ExtractBias == ExtractField("bias_detection", "emotional_manipulation")
ExtractEmotional == ExtractField("emotional_manipulation", "sensational_tone")
ExtractSensational == ExtractField("sensational_tone", "return")

\* line 741
ReturnAnalysis ==
    /\ pc = "return"
    /\ Return("normalized", analysis)
    /\ UNCHANGED <<endpoint_vars, concurrent_vars, utility_vars,
                   original_news, verified_articles, llm, verified_contents, prompt,
                   model_calls, response, content, json_str, result, analysis>>

Next ==
    \/ FilterReferences
    \/ ShortCircuit
    \/ BuildPrompt
    \/ InvokeModel
    \/ ReadContent
    \/ LocateJson
    \/ DecodeJson
    \/ ExtractScore
    \/ ExtractFindings
    \/ ExtractDifferences
    \/ ExtractEvidence
    \/ ExtractBreakdown
    \/ ExtractClaims
    \/ ExtractBias
    \/ ExtractEmotional
    \/ ExtractSensational
    \/ ReturnAnalysis

Spec == Init /\ [][Next]_vars

(***************************************************************************)
(* The endpoint /analyze_authenticity, get_authenticity_analysis: it reads *)
(* the request, calls analyze_authenticity, stores the result for a        *)
(* logged-in user and answers.                                             *)
(***************************************************************************)
\* request.get_json(): nothing usable, no 'original_news', or both arguments.
RequestData == {"no_data", "no_news", "ok"}

\* current_user.is_authenticated, and what db.session.commit() does.
Logins ==
    {[authenticated |-> FALSE, db |-> "ok"],
     [authenticated |-> TRUE, db |-> "ok"],
     [authenticated |-> TRUE, db |-> "commit_raises"]}

\* A model that is not reached by a request without arguments.
QuietScenario == CHOOSE sc \in Scenarios : sc.llm.kind = "none"

\* The requests: those without arguments, and every scenario of
\* analyze_authenticity under every login; 'verified_articles' may be missing.
Requests ==
    {[data |-> d, original_news |-> "", has_articles |-> FALSE,
      verified_articles |-> <<>>, authenticated |-> FALSE, db |-> "ok", llm |-> QuietScenario.llm] :
        d \in {"no_data", "no_news"}}
    \cup {[data |-> "ok", original_news |-> "news", has_articles |-> TRUE,
           verified_articles |-> sc.refs, authenticated |-> lg.authenticated, db |-> lg.db, llm |-> sc.llm] :
             sc \in Scenarios, lg \in Logins}
    \cup {[data |-> "ok", original_news |-> "news", has_articles |-> FALSE,
           verified_articles |-> <<>>, authenticated |-> lg.authenticated, db |-> lg.db, llm |-> QuietScenario.llm] :
             lg \in Logins}

\* lines 817-828: the body of the "except Exception" branch.
FallbackBody ==
    [authenticity_score |-> 0,
     key_findings |-> <<"Error during analysis">>,
     differences |-> <<"Analysis failed">>,
     supporting_evidence |-> <<[quote |-> "Unable to process", source |-> "System"]>>,
     score_breakdown |-> ZeroBreakdown]

\* return jsonify(record), code
Respond(code, record) ==
    /\ status' = code
    /\ body' = record
    /\ handler' = "responded"

\* lines 815-828
Fallback == Respond(200, FallbackBody)

\* lines 788-800: the row of VerificationResult.
VerificationRow(record) ==
    [table |-> "verification_result",
     original_text |-> original_news,
     authenticity_score |-> record.authenticity_score,
     key_findings |-> record.key_findings,
     differences |-> record.differences,
     supporting_evidence |-> record.supporting_evidence,
     score_breakdown |-> record.score_breakdown]

\* lines 804-810: the row of UserHistory.
HistoryRow(record) ==
    [table |-> "user_history",
     action_type |-> "article_verified",
     score |-> record.authenticity_score]

EndpointInit ==
    /\ \E rq \in Requests :
          /\ request = [data |-> rq.data, original_news |-> rq.original_news,
                        has_articles |-> rq.has_articles,
                        verified_articles |-> rq.verified_articles,
                        authenticated |-> rq.authenticated, db |-> rq.db]
          /\ llm = rq.llm
    /\ handler = "request"
    /\ status = 0
    /\ body = NoRecord
    /\ db_rows = <<>>
    /\ original_news = ""
    /\ verified_articles = <<>>
    /\ pc = "idle"
    /\ verified_contents = <<>>
    /\ prompt = NoRecord
    /\ model_calls = 0
    /\ response = NoRecord
    /\ content = <<>>
    /\ json_str = <<>>
    /\ result = NoRecord
    /\ analysis = NoRecord
    /\ outcome = "pending"
    /\ ret = NoRecord
    /\ calls = <<>>
    /\ heap = 0
    /\ UtilitiesIdle

\* lines 773-783: the arguments are read and analyze_authenticity is called.
ReceiveRequest ==
    /\ handler = "request"
    /\ IF request.data \in {"no_data", "no_news"}
       THEN /\ Fallback
            /\ UNCHANGED <<original_news, verified_articles, pc>>
       ELSE /\ original_news' = request.original_news
            /\ verified_articles' =
                  IF request.has_articles THEN request.verified_articles ELSE <<>>
            /\ pc' = "start"
            /\ handler' = "calling"
            /\ UNCHANGED <<status, body>>
    /\ UNCHANGED <<request, db_rows, concurrent_vars, utility_vars, llm, verified_contents, prompt,
                   model_calls, response, content, json_str, result, analysis,
                   outcome, ret>>

\* lines 783-786 and 813: analyze_authenticity has returned or raised.
AfterCall ==
    /\ handler = "calling"
    /\ pc = "done"
    /\ IF outcome = "raised"
       THEN Fallback
       ELSE IF request.authenticated
       THEN /\ handler' = "persist"
            /\ UNCHANGED <<status, body>>
       ELSE Respond(200, ret)
    /\ UNCHANGED <<request, db_rows, concurrent_vars, utility_vars, original_news, verified_articles,
                   llm, pc, verified_contents, prompt, model_calls, response, content,
                   json_str, result, analysis, outcome, ret>>

\* lines 786-813: the rows are added and committed; an exception of the
\* commit is caught at line 815.
Persist ==
    /\ handler = "persist"
    /\ IF request.db = "commit_raises"
       THEN /\ Fallback
            /\ UNCHANGED db_rows
       ELSE /\ db_rows' = db_rows \o <<VerificationRow(ret), HistoryRow(ret)>>
            /\ Respond(200, ret)
    /\ UNCHANGED <<request, concurrent_vars, utility_vars, original_news, verified_articles,
                   llm, pc, verified_contents, prompt, model_calls, response, content,
                   json_str, result, analysis, outcome, ret>>

EndpointNext ==
    \/ ReceiveRequest
    \/ FilterReferences
    \/ ShortCircuit
    \/ BuildPrompt
    \/ InvokeModel
    \/ ReadContent
    \/ LocateJson
    \/ DecodeJson
    \/ ExtractScore
    \/ ExtractFindings
    \/ ExtractDifferences
    \/ ExtractEvidence
    \/ ExtractBreakdown
    \/ ExtractClaims
    \/ ExtractBias
    \/ ExtractEmotional
    \/ ExtractSensational
    \/ ReturnAnalysis
    \/ AfterCall
    \/ Persist

EndpointSpec == EndpointInit /\ [][EndpointNext]_vars

(***************************************************************************)
(* Calls of analyze_authenticity that run side by side (one per request    *)
(* thread).  Every name the function uses is a local or an argument, so    *)
(* the state of a call is its own record in calls; the only thing the      *)
(* calls have in common is the heap their records are allocated on.  A     *)
(* call takes three steps: up to the model call, the answer of the model,  *)
(* and from the answer to the return.                                      *)
(***************************************************************************)
CallIds == 1..MaxCalls

\* The part of analyze_authenticity after ollama.chat, as one function of the
\* reply: the record that is returned.
RecordForReply(reply) ==
    IF reply.kind = "raises"
    THEN create_error_response(AnalysisFailed("ConnectionError"))
    ELSE IF reply.kind \in {"none", "no_message", "no_content"}
    THEN create_error_response("Invalid response from LLM")
    ELSE IF reply.kind = "bad_message"
    THEN create_error_response(AnalysisFailed("TypeError"))
    ELSE IF reply.kind = "content_null"
    THEN create_error_response(AnalysisFailed("AttributeError"))
    ELSE RecordForText(reply.text, reply.payload)

\* The part of analyze_authenticity before ollama.chat, as one function of
\* the arguments: it raises, short-circuits, or goes on to call the model.
BeforeModel(news, articles) ==
    LET contents == FilterContents(articles)
    IN IF contents.exc # "none" THEN "raised"
       ELSE IF contents.v = <<>> THEN "short_circuit"
       ELSE IF BuildPromptText(news, contents.v).exc # "none" THEN "raised"
       ELSE "invoke"

\* The dicts and lists of a returned record: the record itself and every
\* value in it that is a dict or a list.
NumObjects(record) == 1 + Cardinality(DOMAIN record \ {"authenticity_score"})

\* A module-level record handed out by every call: the same objects each time.
FreshShared(n) == 1..n

\* The objects made by the dict and list displays of a return statement: new
\* ones at every evaluation.
Fresh(n) == (heap + 1)..(heap + n)

\* The arguments and models of the calls that run side by side.
ConcurrentScenarios ==
    {[refs |-> r, llm |-> Reply("text", JsonText, GoodPayload)] :
        r \in {<<>>, OneRef, <<Article(Absent)>>, <<Article(I(7))>>}}
    \cup {[refs |-> OneRef, llm |-> Reply(k, <<>>, GoodPayload)] :
            k \in {"raises", "no_message", "no_answer"}}
    \cup {[refs |-> OneRef, llm |-> Reply("text", t, BadPayload)] :
            t \in {<<"w">>, <<"{", "m", "}">>}}

ConcurrentInit ==
    /\ calls \in [CallIds ->
          {[original_news |-> "news", verified_articles |-> sc.refs, llm |-> sc.llm,
            pc |-> "start", response |-> NoRecord, outcome |-> "pending",
            ret |-> NoRecord, parts |-> {}] : sc \in ConcurrentScenarios}]
    /\ heap = 0
    /\ UtilitiesIdle
    /\ original_news = ""
    /\ verified_articles = <<>>
    /\ llm = NoRecord
    /\ pc = "idle"
    /\ verified_contents = <<>>
    /\ prompt = NoRecord
    /\ model_calls = 0
    /\ response = NoRecord
    /\ content = <<>>
    /\ json_str = <<>>
    /\ result = NoRecord
    /\ analysis = NoRecord
    /\ outcome = "pending"
    /\ ret = NoRecord
    /\ request = NoRecord
    /\ handler = "direct"
    /\ status = 0
    /\ body = NoRecord
    /\ db_rows = <<>>

\* The variables of the single call and of the endpoint.
single_call_vars ==
    <<original_news, verified_articles, llm, pc, verified_contents, prompt,
      model_calls, response, content, json_str, result, analysis, outcome, ret,
      endpoint_vars>>

\* return record, in call i: the record is built from new objects.
Finish(i, how, record) ==
    /\ calls' = [calls EXCEPT ![i] =
                    [@ EXCEPT !.pc = "done", !.outcome = how, !.ret = record,
                              !.parts = Fresh(NumObjects(record))]]
    /\ heap' = heap + NumObjects(record)

\* lines 515-614 in call i: up to the call of ollama.chat.
CallStart(i) ==
    /\ calls[i].pc = "start"
    /\ LET way == BeforeModel(calls[i].original_news, calls[i].verified_articles)
       IN IF way = "raised"
          THEN /\ calls' = [calls EXCEPT ![i] =
                              [@ EXCEPT !.pc = "done", !.outcome = "raised"]]
               /\ UNCHANGED heap
          ELSE IF way = "short_circuit"
          THEN Finish(i, "returned", NoReferenceRecord)
          ELSE /\ calls' = [calls EXCEPT ![i] = [@ EXCEPT !.pc = "waiting"]]
               /\ UNCHANGED heap
    /\ UNCHANGED <<single_call_vars, utility_vars>>

\* ollama.chat of call i returns or raises: each call gets the reply to its
\* own request.
ModelAnswers(i) ==
    /\ calls[i].pc = "waiting"
    /\ calls[i].llm.kind # "no_answer"
    /\ calls' = [calls EXCEPT ![i] =
                    [@ EXCEPT !.pc = "answered", !.response = calls[i].llm]]
    /\ UNCHANGED <<heap, single_call_vars, utility_vars>>

\* lines 617-750 in call i: from the reply to the return.
CallReturn(i) ==
    /\ calls[i].pc = "answered"
    /\ Finish(i, "returned", RecordForReply(calls[i].response))
    /\ UNCHANGED <<single_call_vars, utility_vars>>

ConcurrentNext ==
    \E i \in CallIds :
        \/ CallStart(i)
        \/ ModelAnswers(i)
        \/ CallReturn(i)

ConcurrentSpec == ConcurrentInit /\ [][ConcurrentNext]_vars

(***************************************************************************)
(* detect_language, translate_to_english and translate_from_english.  The  *)
(* libraries are the environment: langdetect returns a language code or    *)
(* raises, GoogleTranslator(...).translate returns a text or raises.       *)
(***************************************************************************)
\* No call of analyze_authenticity or of its endpoint is under way.
AnalysisIdle ==
    /\ original_news = ""
    /\ verified_articles = <<>>
    /\ llm = NoRecord
    /\ pc = "idle"
    /\ verified_contents = <<>>
    /\ prompt = NoRecord
    /\ model_calls = 0
    /\ response = NoRecord
    /\ content = <<>>
    /\ json_str = <<>>
    /\ result = NoRecord
    /\ analysis = NoRecord
    /\ outcome = "pending"
    /\ ret = NoRecord
    /\ request = NoRecord
    /\ handler = "direct"
    /\ status = 0
    /\ body = NoRecord
    /\ db_rows = <<>>
    /\ calls = <<>>
    /\ heap = 0

\* lines 47-51: the keys of SUPPORTED_LANGUAGES.
SUPPORTED_LANGUAGES == {"en", "hi", "mr"}

\* What langdetect's detect does: a language code, or an exception.
DetectOutcomes == {"en", "hi", "mr", "fr", "raises"}

\* What GoogleTranslator(...).translate does: a text, or an exception.
TranslateOutcomes == {"translates", "raises"}

\* The texts handed to the language functions.
LanguageTexts == {"", "hello", "namaste"}

\* The language arguments: None ("none"), the empty string, codes.
LanguageArgs == {"none", "", "en", "hi", "mr", "xx"}

\* The text GoogleTranslator returns: a text in the target language.
Translated(text, target) == "[" \o target \o "] " \o text

\* detect_language that returns whatever code langdetect found.
detect_language_unmapped(text, enabled, env) ==
    IF ~enabled THEN "en"
    ELSE IF env.detect = "raises" THEN "en"
    ELSE env.detect

\* lines 108-124
detect_language(text, enabled, env) ==
    IF ~enabled THEN "en"
    ELSE IF env.detect = "raises" THEN "en"
    ELSE IF env.detect \in SUPPORTED_LANGUAGES THEN env.detect
    ELSE "en"

\* lines 126-148
translate_to_english(text, source_lang, enabled, env) ==
    IF ~enabled THEN [text |-> text, lang |-> "en"]
    ELSE LET lang == IF source_lang \in {"none", ""}
                     THEN detect_language(text, enabled, env)
                     ELSE source_lang
         IN IF lang = "en" THEN [text |-> text, lang |-> "en"]
            ELSE IF env.translate = "raises" THEN [text |-> text, lang |-> "en"]
            ELSE [text |-> Translated(text, "en"), lang |-> lang]

\* lines 150-167
translate_from_english(text, target_lang, enabled, env) ==
    IF ~enabled THEN [text |-> text]
    ELSE IF target_lang = "en" THEN [text |-> text]
    ELSE IF env.translate = "raises" THEN [text |-> text]
    ELSE [text |-> Translated(text, target_lang)]

LanguageFunctions == {"detect_language", "translate_to_english", "translate_from_english"}

LanguageInit ==
    /\ MULTILINGUAL_ENABLED \in BOOLEAN
    /\ language_call \in [fn : LanguageFunctions, text : LanguageTexts, lang : LanguageArgs]
    /\ language_call.fn = "detect_language" => language_call.lang = "none"
    /\ language_env \in [detect : DetectOutcomes, translate : TranslateOutcomes]
    /\ language_pc = "call"
    /\ language_ret = NoRecord
    /\ AnalysisIdle
    /\ TextIdle
    /\ ImageIdle

LanguageReturn(value) ==
    /\ language_ret' = value
    /\ language_pc' = "done"
    /\ UNCHANGED <<MULTILINGUAL_ENABLED, language_call, language_env,
                   single_call_vars, concurrent_vars, text_vars, image_vars>>

\* lines 108-124
DetectLanguage ==
    /\ language_pc = "call"
    /\ language_call.fn = "detect_language"
    /\ LanguageReturn([code |-> detect_language(language_call.text,
                                                MULTILINGUAL_ENABLED, language_env)])

\* lines 126-148
TranslateToEnglish ==
    /\ language_pc = "call"
    /\ language_call.fn = "translate_to_english"
    /\ LanguageReturn(translate_to_english(language_call.text, language_call.lang,
                                           MULTILINGUAL_ENABLED, language_env))

\* lines 150-167
TranslateFromEnglish ==
    /\ language_pc = "call"
    /\ language_call.fn = "translate_from_english"
    /\ LanguageReturn(translate_from_english(language_call.text, language_call.lang,
                                             MULTILINGUAL_ENABLED, language_env))

LanguageNext ==
    \/ DetectLanguage
    \/ TranslateToEnglish
    \/ TranslateFromEnglish

LanguageSpec == LanguageInit /\ [][LanguageNext]_vars

(***************************************************************************)
(* verify_text_with_llama (src/app.py lines 978-1060), step by step.       *)
(***************************************************************************)
TextKeys == <<"credibility_score", "verdict", "claims", "red_flags",
              "recommendations", "summary", "note">>

TextClaim == D([claim |-> S("c"), assessment |-> S("false"), explanation |-> S("why")])

\* The values the model may give to a key of its answer; "note" is a key the
\* function does not ask for.
TextVals ==
    [k \in {TextKeys[i] : i \in 1..Len(TextKeys)} |->
        CASE k = "credibility_score" -> {I(80), I(150), I(-5), S("high"), Null}
          [] k = "verdict" -> {S("Likely False"), Null}
          [] k = "claims" -> {L(<<>>), L(<<TextClaim>>)}
          [] k = "red_flags" -> {L(<<S("no source")>>)}
          [] k = "recommendations" -> {L(<<S("check")>>)}
          [] k = "summary" -> {S("short")}
          [] k = "note" -> {S("n")}]

\* The JSON objects the answer may carry: every choice of keys.
TextPayloads == {D(d) : d \in SparseDicts(TextKeys, Len(TextKeys), TextVals)}

FullTextPayload ==
    D([credibility_score |-> I(150), verdict |-> S("Likely False"),
       claims |-> L(<<TextClaim>>), red_flags |-> L(<<S("no source")>>),
       recommendations |-> L(<<S("check")>>), summary |-> S("short"),
       note |-> Absent])

TextScenarios ==
    {Reply("text", JsonText, p) : p \in TextPayloads}
    \cup {Reply(k, <<>>, FullTextPayload) : k \in EnvelopeKinds \ {"text"}}
    \cup {Reply("text", t, FullTextPayload) : t \in Texts}

TextLanguages == {"en", "hi"}

\* The record of lines 1040-1048 with credibility_score forced into 0..100.
TextResultClamped(res, original_lang) ==
    LET given == Get(res, "credibility_score", I(50))
    IN [credibility_score |-> IF given.t = "int" THEN I(Clamp(0, 100, given.n)) ELSE given,
        verdict |-> Get(res, "verdict", S("Needs Verification")),
        claims |-> Get(res, "claims", L(<<>>)),
        red_flags |-> Get(res, "red_flags", L(<<>>)),
        recommendations |-> Get(res, "recommendations", L(<<>>)),
        summary |-> Get(res, "summary", S("Analysis completed")),
        original_language |-> original_lang]

\* lines 1040-1048
TextResult(res, original_lang) ==
    [credibility_score |-> Get(res, "credibility_score", I(50)),
     verdict |-> Get(res, "verdict", S("Needs Verification")),
     claims |-> Get(res, "claims", L(<<>>)),
     red_flags |-> Get(res, "red_flags", L(<<>>)),
     recommendations |-> Get(res, "recommendations", L(<<>>)),
     summary |-> Get(res, "summary", S("Analysis completed")),
     original_language |-> original_lang]

\* lines 1052-1060
TextFallbackResult(original_lang) ==
    [credibility_score |-> I(50),
     verdict |-> S("Needs Verification"),
     claims |-> L(<<>>),
     red_flags |-> L(<<S("Unable to perform complete analysis")>>),
     recommendations |-> L(<<S("Try verifying from official sources")>>),
     summary |-> S("Analysis could not be completed fully"),
     original_language |-> original_lang]

TextInit ==
    /\ text_lang \in TextLanguages
    /\ text_llm \in TextScenarios
    /\ text_pc = "chat"
    /\ text_response = NoRecord
    /\ text_content = <<>>
    /\ text_json_str = <<>>
    /\ text_outcome = "pending"
    /\ text_ret = NoRecord
    /\ AnalysisIdle
    /\ LanguageIdle
    /\ ImageIdle

\* What a step of verify_text_with_llama leaves alone.
TextFrame ==
    UNCHANGED <<text_lang, text_llm, single_call_vars, concurrent_vars,
                language_vars, image_vars>>

\* An exception reaches "except Exception" (lines 1049-1050), or the if of
\* line 1031 or 1035 is false: control goes on to line 1052.
TextFallThrough ==
    /\ text_pc' = "fallback"
    /\ UNCHANGED <<text_outcome, text_ret>>

\* lines 1020-1029: ollama.chat is called without a timeout.
TextChat ==
    /\ text_pc = "chat"
    /\ IF text_llm.kind = "raises"
       THEN /\ TextFallThrough
            /\ UNCHANGED text_response
       ELSE IF text_llm.kind = "no_answer"
       THEN /\ text_pc' = "blocked"
            /\ UNCHANGED <<text_response, text_outcome, text_ret>>
       ELSE /\ text_response' = [kind |-> text_llm.kind, text |-> text_llm.text]
            /\ text_pc' = "envelope"
            /\ UNCHANGED <<text_outcome, text_ret>>
    /\ UNCHANGED <<text_content, text_json_str>>
    /\ TextFrame

\* lines 1031-1032
TextReadContent ==
    /\ text_pc = "envelope"
    /\ IF text_response.kind = "text"
       THEN /\ text_content' = Strip(text_response.text)
            /\ text_pc' = "locate"
            /\ UNCHANGED <<text_outcome, text_ret>>
       ELSE /\ TextFallThrough
            /\ UNCHANGED text_content
    /\ UNCHANGED <<text_response, text_json_str>>
    /\ TextFrame

\* lines 1033-1036
TextLocateJson ==
    /\ text_pc = "locate"
    /\ LET start == Find(text_content, "{")
           end == RFind(text_content, "}")
       IN IF start # -1 /\ end # -1
          THEN /\ text_json_str' = PySlice(text_content, start, end + 1)
               /\ text_pc' = "decode"
               /\ UNCHANGED <<text_outcome, text_ret>>
          ELSE /\ TextFallThrough
               /\ UNCHANGED text_json_str
    /\ UNCHANGED <<text_response, text_content>>
    /\ TextFrame

\* lines 1037-1048
TextDecodeJson ==
    /\ text_pc = "decode"
    /\ LET decoded == JsonLoads(text_json_str, text_llm.payload)
       IN IF decoded.exc # "none"
          THEN TextFallThrough
          ELSE /\ text_pc' = "done"
               /\ text_outcome' = "verified"
               /\ text_ret' = TextResult(decoded.v, text_lang)
    /\ UNCHANGED <<text_response, text_content, text_json_str>>
    /\ TextFrame

\* lines 1052-1060
TextFallback ==
    /\ text_pc = "fallback"
    /\ text_pc' = "done"
    /\ text_outcome' = "fallback"
    /\ text_ret' = TextFallbackResult(text_lang)
    /\ UNCHANGED <<text_response, text_content, text_json_str>>
    /\ TextFrame

TextNext ==
    \/ TextChat
    \/ TextReadContent
    \/ TextLocateJson
    \/ TextDecodeJson
    \/ TextFallback

TextSpec == TextInit /\ [][TextNext]_vars

(***************************************************************************)
(* ImageDetector._fallback_local_analysis (src/image_detector.py lines     *)
(* 206-292), step by step.  image says what Pillow finds in image_bytes.   *)
(***************************************************************************)
\* lines 261-264
ai_dimensions ==
    {<<512, 512>>, <<768, 768>>, <<1024, 1024>>, <<1536, 1536>>,
     <<512, 768>>, <<768, 512>>, <<768, 1024>>, <<1024, 768>>}

\* width and height of the images of the model.
ImageSizes ==
    {<<512, 512>>, <<768, 512>>, <<1024, 768>>, <<640, 640>>, <<1280, 704>>,
     <<128, 128>>, <<448, 576>>, <<500, 300>>, <<640, 300>>}

Images ==
    {im \in [opens : BOOLEAN, exif : {"raises", "none", "present"},
             has_camera : BOOLEAN, has_gps : BOOLEAN, ai_software : BOOLEAN,
             format : {"PNG", "JPEG"}, info : {"plain", "signature", "prompt"},
             size : ImageSizes] :
        /\ im.exif # "present" => ~im.has_camera /\ ~im.has_gps /\ ~im.ai_software
        /\ im.format # "PNG" => im.info = "plain"
        /\ ~im.opens => /\ im.exif = "none" /\ im.format = "JPEG"
                        /\ im.size = <<500, 300>>}

\* lines 294-304
ImageErrorResponse ==
    [is_ai_generated |-> FALSE,
     confidence |-> 50,
     status |-> "Unknown",
     reasons |-> <<"Analysis error">>,
     artifacts_detected |-> FALSE,
     detection_method |-> "Error",
     note |-> "Could not complete analysis"]

\* The confidence that is the score on both sides of the threshold.
ImageConfidenceOneSided(score, is_ai_generated) == score

\* line 282
ImageConfidence(score, is_ai_generated) ==
    IF is_ai_generated THEN score ELSE 100 - score

\* lines 280-288
ImageResult(score, reasons) ==
    LET is_ai_generated == score >= 50
    IN [is_ai_generated |-> is_ai_generated,
        confidence |-> ImageConfidence(score, is_ai_generated),
        status |-> IF is_ai_generated THEN "AI-generated" ELSE "Real",
        reasons |-> Prefix(reasons, 3),
        artifacts_detected |-> is_ai_generated,
        detection_method |-> "Local Analysis (API unavailable)",
        note |-> "For best results, configure SightEngine API credentials"]

\* if cond: score += points; reasons.append(reason)
Scored(st, cond, points, reason) ==
    IF cond THEN [score |-> st.score + points, reasons |-> Append(st.reasons, reason)]
    ELSE st

ImageInit ==
    /\ image \in Images
    /\ image_pc = "open"
    /\ image_score = 0
    /\ image_reasons = <<>>
    /\ image_ret = NoRecord
    /\ AnalysisIdle
    /\ LanguageIdle
    /\ TextIdle

\* What a step of _fallback_local_analysis leaves alone.
ImageFrame ==
    UNCHANGED <<image, single_call_vars, concurrent_vars, language_vars, text_vars>>

\* score and reasons become those of st and the call goes on at next.
ImageStep(st, next) ==
    /\ image_score' = st.score
    /\ image_reasons' = st.reasons
    /\ image_pc' = next
    /\ UNCHANGED image_ret

\* lines 212-216 and 290-292
OpenImage ==
    /\ image_pc = "open"
    /\ IF image.opens
       THEN ImageStep([score |-> 50, reasons |-> <<>>], "exif")
       ELSE /\ image_ret' = ImageErrorResponse
            /\ image_pc' = "done"
            /\ UNCHANGED <<image_score, image_reasons>>
    /\ ImageFrame

\* lines 219-245
CheckExif ==
    /\ image_pc = "exif"
    /\ LET st == [score |-> image_score, reasons |-> image_reasons]
       IN IF image.exif = "raises" THEN ImageStep(st, "png")
          ELSE IF image.exif = "none"
          THEN ImageStep(Scored(st, TRUE, 15, "No camera metadata found"), "png")
          ELSE ImageStep(
                  Scored(Scored(Scored(st, image.has_camera, -25, "Camera metadata found"),
                                image.has_gps, -20, "GPS location data present"),
                         image.ai_software, 40, "AI generation software detected"),
                  "png")
    /\ ImageFrame

\* lines 248-258
CheckPng ==
    /\ image_pc = "png"
    /\ LET st == [score |-> image_score, reasons |-> image_reasons]
       IN IF image.format # "PNG" THEN ImageStep(st, "dimensions")
          ELSE IF image.info = "signature"
          THEN ImageStep(Scored(st, TRUE, 40, "AI parameters found in PNG metadata"),
                         "dimensions")
          ELSE ImageStep(Scored(st, image.info = "prompt", 35,
                                "Generation prompt found in metadata"), "dimensions")
    /\ ImageFrame

\* lines 266-271
CheckDimensions ==
    /\ image_pc = "dimensions"
    /\ LET st == [score |-> image_score, reasons |-> image_reasons]
           width == image.size[1]
           height == image.size[2]
       IN IF <<width, height>> \in ai_dimensions \/ <<height, width>> \in ai_dimensions
          THEN ImageStep(Scored(st, TRUE, 15, "Dimensions match common AI output"), "clamp")
          ELSE ImageStep(Scored(st, width % 64 = 0 /\ height % 64 = 0 /\ width >= 512,
                                10, "Dimensions are multiples of 64"), "clamp")
    /\ ImageFrame

\* lines 274-288
ClampAndReturn ==
    /\ image_pc = "clamp"
    /\ LET score == Max(0, Min(100, image_score))
           reasons == IF image_reasons = <<>>
                      THEN <<"Image analysis complete (local fallback method)">>
                      ELSE image_reasons
       IN /\ image_score' = score
          /\ image_reasons' = reasons
          /\ image_ret' = ImageResult(score, reasons)
    /\ image_pc' = "done"
    /\ ImageFrame

ImageNext ==
    \/ OpenImage
    \/ CheckExif
    \/ CheckPng
    \/ CheckDimensions
    \/ ClampAndReturn

ImageSpec == ImageInit /\ [][ImageNext]_vars

(***************************************************************************)
(* Properties.                                                             *)
(***************************************************************************)
\* The call has ended by returning a record.
Returned == pc = "done" /\ outcome # "raised"

\* The model was called and answered with text.
AnsweredText == model_calls > 0 /\ llm.kind = "text"

\* A JSON object was decoded from the answer.
Decoded == result # NoRecord

KeysOf(rec) == DOMAIN rec

\* Every key of a VerificationResult is present, with its nested keys.
FullyPopulated(rec) ==
    /\ KeysOf(rec) = TopKeySet
    /\ KeysOf(rec.score_breakdown) =
          {"factual_accuracy", "source_consistency", "detail_accuracy", "context_accuracy"}
    /\ \A i \in 1..Len(rec.supporting_evidence) :
          KeysOf(rec.supporting_evidence[i]) = {"quote", "source"}
    /\ \A i \in 1..Len(rec.claims_analysis) :
          KeysOf(rec.claims_analysis[i]) =
             {"claim", "classification", "explanation", "corrected_statement", "confidence"}
    /\ KeysOf(rec.bias_detection) = {"detected", "type", "indicators"}
    /\ KeysOf(rec.emotional_manipulation) = {"detected", "tactics", "examples"}
    /\ KeysOf(rec.sensational_tone) = {"detected", "score", "indicators"}

\* C1: every record returned by analyze_authenticity, on every path, holds
\* all nine top-level keys, each with all of its nested keys.
C1_EveryRecordFullyPopulated == Returned => FullyPopulated(ret)

InRange(lo, hi, v) == lo <= v /\ v <= hi

\* C2: whatever the model answers, the returned record has authenticity_score
\* in [0,100], factual_accuracy in [0,40], source_consistency in [0,30],
\* detail_accuracy in [0,20], context_accuracy in [0,10], every claim's
\* confidence in [0,100] and sensational_tone.score in [0,100].
C2_NumericFieldsInRange ==
    (Returned /\ model_calls > 0) =>
        /\ InRange(0, 100, ret.authenticity_score)
        /\ InRange(0, 40, ret.score_breakdown.factual_accuracy)
        /\ InRange(0, 30, ret.score_breakdown.source_consistency)
        /\ InRange(0, 20, ret.score_breakdown.detail_accuracy)
        /\ InRange(0, 10, ret.score_breakdown.context_accuracy)
        /\ \A i \in 1..Len(ret.claims_analysis) :
              InRange(0, 100, ret.claims_analysis[i].confidence)
        /\ InRange(0, 100, ret.sensational_tone.score)

\* A record was built from an object whose numbers lie outside the ranges.
C2_Witness ==
    /\ Returned /\ outcome = "normalized"
    /\ result.d.score_breakdown.t = "dict"
    /\ result.d.score_breakdown.d.factual_accuracy = I(-5)
    /\ ret.score_breakdown.factual_accuracy = 0

\* C3: analyze_authenticity never raises to its caller, whatever the
\* reference list holds and whatever the model call does.
C3_NeverRaises == outcome # "raised"

\* C4: with an empty reference list the model is never invoked, and the
\* returned authenticity_score is 0 with exactly one entry in key_findings.
C4_EmptyReferencesShortCircuit ==
    verified_articles = <<>> =>
        /\ model_calls = 0
        /\ pc = "done" =>
              /\ outcome = "short_circuit"
              /\ ret.authenticity_score = 0
              /\ Len(ret.key_findings) = 1

\* The call with an empty reference list has returned.
C4_Witness == verified_articles = <<>> /\ pc = "done" /\ outcome = "short_circuit"

\* v is present and int(v) fails.
NotNumeric(v) == v.t # "absent" /\ PyInt(v).exc # "none"

\* v is present and v[:n] fails.
NotSliceable(v) == v.t \notin {"absent", "list", "str"}

\* The positions among the first cap items of l that hold an object.
ObjectPositions(l, cap) ==
    SelectSeq([i \in 1..Min(cap, Len(l)) |-> i], LAMBDA i : l[i].t = "dict")

\* The claims the normalizer looks at: the first ten entries of the list.
ClaimsSeen(res) ==
    IF res.d.claims_analysis.t = "list" THEN SubSeq(res.d.claims_analysis.l, 1,
            Min(ClaimCap, Len(res.d.claims_analysis.l)))
    ELSE <<>>

BadConfidence(claim) == claim.t = "dict" /\ NotNumeric(Get(claim, "confidence", Absent))

\* The value v of the field cannot be coerced to what the field expects.
Uncoercible(field, v) ==
    /\ v.t # "absent"
    /\ CASE field = "authenticity_score" -> NotNumeric(v)
         [] field = "score_breakdown" ->
               v.t # "dict" \/ \E k \in DOMAIN v.d : NotNumeric(v.d[k])
         [] field = "claims_analysis" ->
               v.t # "list" \/ \E i \in 1..Len(v.l) : BadConfidence(v.l[i])
         [] field = "bias_detection" ->
               v.t # "dict" \/ NotSliceable(Get(v, "indicators", Absent))
         [] field = "emotional_manipulation" ->
               \/ v.t # "dict"
               \/ NotSliceable(Get(v, "tactics", Absent))
               \/ NotSliceable(Get(v, "examples", Absent))
         [] field = "sensational_tone" ->
               \/ v.t # "dict"
               \/ NotNumeric(Get(v, "score", Absent))
               \/ NotSliceable(Get(v, "indicators", Absent))

CoercedFields == {"authenticity_score", "score_breakdown", "claims_analysis",
                  "bias_detection", "emotional_manipulation", "sensational_tone"}

\* C5: a claim whose confidence is not numeric is kept with confidence 50,
\* and every other entry of claims_analysis is kept: the list is not discarded.
\* (Stated for objects in which nothing but claims_analysis is malformed.)
C5_NonNumericConfidenceDefaults ==
    (/\ pc = "done" /\ Decoded
     /\ \E i \in 1..Len(ClaimsSeen(result)) : BadConfidence(ClaimsSeen(result)[i])
     /\ \A field \in CoercedFields \ {"claims_analysis"} :
           ~Uncoercible(field, result.d[field])) =>
        LET seen == ClaimsSeen(result)
            pos == ObjectPositions(seen, ClaimCap)
        IN /\ outcome = "normalized"
           /\ Len(ret.claims_analysis) = Len(pos)
           /\ \A j \in 1..Len(pos) :
                 BadConfidence(seen[pos[j]]) =>
                    ret.claims_analysis[j].confidence = DefaultConfidence

\* The object res with the key field removed.
Without(res, field) == D([res.d EXCEPT ![field] = Absent])

\* C6: a coercion failure is confined to its field: the field takes its
\* default and every other field of the returned record is what it would be
\* had the malformed field been absent.
C6_CoercionFailureConfined ==
    (pc = "done" /\ Decoded) =>
        \A field \in CoercedFields :
            Uncoercible(field, result.d[field]) =>
                /\ outcome = "normalized"
                /\ ret[field] = AnalysisTemplate[field]
                /\ \A other \in TopKeySet \ {field} :
                      ret[other] = Normalized(Without(result, field))[other]

\* C7: once a JSON object has been decoded, the call returns the output of
\* the normalizer; nothing in the object turns the outcome into an ErrorResult.
C7_DecodedObjectIsNormalized == (pc = "done" /\ Decoded) => outcome = "normalized"

HasToken(text, tok) == \E i \in 1..Len(text) : text[i] = tok

\* C8: a model text without '{' gives, without raising, an ErrorResult with
\* authenticity_score 0 and a non-empty differences list.
C8_NoOpenBraceGivesErrorResult ==
    (pc = "done" /\ AnsweredText /\ ~HasToken(llm.text, "{")) =>
        /\ outcome = "error"
        /\ ret.authenticity_score = 0
        /\ ret.score_breakdown = ZeroBreakdown
        /\ Len(ret.differences) > 0
        /\ ret.key_findings = <<"Could not find JSON in LLM response">>

\* The call ended on a text that holds a closing brace but no opening one.
C8_Witness ==
    /\ pc = "done" /\ AnsweredText
    /\ ~HasToken(llm.text, "{") /\ HasToken(llm.text, "}")
    /\ outcome = "error"

SubScoreMax(k) ==
    CASE k = "factual_accuracy" -> 40
      [] k = "source_consistency" -> 30
      [] k = "detail_accuracy" -> 20
      [] k = "context_accuracy" -> 10

Saturate(lo, hi, v) == IF v < lo THEN lo ELSE IF v > hi THEN hi ELSE v

\* C9: every integer the candidate supplies for authenticity_score or for a
\* sub-score of score_breakdown comes out as max(lo, min(hi, v)) with the
\* bounds of its field; a value inside the range is unchanged.
C9_IntegersSaturate ==
    (Returned /\ Decoded) =>
        /\ result.d.authenticity_score.t = "int" =>
              ret.authenticity_score = Saturate(0, 100, result.d.authenticity_score.n)
        /\ result.d.score_breakdown.t = "dict" =>
              \A k \in DOMAIN result.d.score_breakdown.d :
                 result.d.score_breakdown.d[k].t = "int" =>
                    ret.score_breakdown[k] =
                       Saturate(0, SubScoreMax(k), result.d.score_breakdown.d[k].n)

\* The lists of a record are no longer than the caps of their fields.
WithinCaps(rec) ==
    /\ Len(rec.key_findings) <= ListCap
    /\ Len(rec.differences) <= ListCap
    /\ Len(rec.supporting_evidence) <= ListCap
    /\ "claims_analysis" \in KeysOf(rec) => Len(rec.claims_analysis) <= ClaimCap
    /\ "bias_detection" \in KeysOf(rec) => Len(rec.bias_detection.indicators) <= IndicatorCap
    /\ "emotional_manipulation" \in KeysOf(rec) =>
          /\ Len(rec.emotional_manipulation.tactics) <= IndicatorCap
          /\ Len(rec.emotional_manipulation.examples) <= IndicatorCap
    /\ "sensational_tone" \in KeysOf(rec) =>
          Len(rec.sensational_tone.indicators) <= IndicatorCap

\* out is the first cap items of the list v, each in its string form.
StringPrefix(out, v, cap) ==
    v.t = "list" =>
        /\ Len(out) = Min(cap, Len(v.l))
        /\ \A i \in 1..Len(out) : out[i] = PyStr(v.l[i])

\* The same for a list held under key of the object v.
NestedStringPrefix(out, v, key, cap) ==
    v.t = "dict" => StringPrefix(out, Get(v, key, L(<<>>)), cap)

StringListsArePrefixes ==
    /\ StringPrefix(ret.key_findings, result.d.key_findings, ListCap)
    /\ StringPrefix(ret.differences, result.d.differences, ListCap)
    /\ NestedStringPrefix(ret.bias_detection.indicators, result.d.bias_detection,
                          "indicators", IndicatorCap)
    /\ NestedStringPrefix(ret.emotional_manipulation.tactics,
                          result.d.emotional_manipulation, "tactics", IndicatorCap)
    /\ NestedStringPrefix(ret.emotional_manipulation.examples,
                          result.d.emotional_manipulation, "examples", IndicatorCap)
    /\ NestedStringPrefix(ret.sensational_tone.indicators, result.d.sensational_tone,
                          "indicators", IndicatorCap)

\* out[j] was built from the item at position pos[j] of the list l.
EvidenceFrom(out, l, pos) ==
    /\ Len(out) = Len(pos)
    /\ \A j \in 1..Len(pos) :
          /\ l[pos[j]].t = "dict"
          /\ out[j].quote = PyStr(Get(l[pos[j]], "quote", S("")))
          /\ out[j].source = PyStr(Get(l[pos[j]], "source", S("Unknown")))

ClaimsFrom(out, l, pos) ==
    /\ Len(out) = Len(pos)
    /\ \A j \in 1..Len(pos) :
          /\ l[pos[j]].t = "dict"
          /\ out[j].claim = PyStr(Get(l[pos[j]], "claim", S("")))

FirstPositions(l, cap) == [i \in 1..Min(cap, Len(l)) |-> i]

\* C10 as stated: every sequence field respects its maximum length and is
\* the order-preserving prefix of the candidate's list.
C10_SequencesArePrefixes ==
    /\ Returned => WithinCaps(ret)
    /\ (pc = "done" /\ outcome = "normalized") =>
          /\ StringListsArePrefixes
          /\ result.d.supporting_evidence.t = "list" =>
                EvidenceFrom(ret.supporting_evidence, result.d.supporting_evidence.l,
                             FirstPositions(result.d.supporting_evidence.l, ListCap))
          /\ result.d.claims_analysis.t = "list" =>
                ClaimsFrom(ret.claims_analysis, result.d.claims_analysis.l,
                           FirstPositions(result.d.claims_analysis.l, ClaimCap))

\* C10 as amended: every sequence field respects its maximum length; in a
\* normalized record the lists of strings are the string forms of the first
\* entries of the candidate's list, in order, and supporting_evidence and
\* claims_analysis hold, in order, the entries built from the objects among
\* the first 3 (10) entries of the candidate's list.
C10_SequencesAreBoundedSelections ==
    /\ Returned => WithinCaps(ret)
    /\ (pc = "done" /\ outcome = "normalized") =>
          /\ StringListsArePrefixes
          /\ result.d.supporting_evidence.t = "list" =>
                EvidenceFrom(ret.supporting_evidence, result.d.supporting_evidence.l,
                             ObjectPositions(result.d.supporting_evidence.l, ListCap))
          /\ result.d.claims_analysis.t = "list" =>
                ClaimsFrom(ret.claims_analysis, result.d.claims_analysis.l,
                           ObjectPositions(result.d.claims_analysis.l, ClaimCap))

\* A record was built from an evidence list longer than the cap whose first
\* entry is no object: the two objects that follow it are what is kept.
C10_Witness ==
    /\ pc = "done" /\ outcome = "normalized"
    /\ result.d.supporting_evidence.t = "list"
    /\ Len(result.d.supporting_evidence.l) > ListCap
    /\ result.d.supporting_evidence.l[1].t # "dict"
    /\ Len(ret.supporting_evidence) = ListCap - 1

\* The positions of the first "{" and of the last "}" of a text that holds both.
FirstOpen(text) ==
    CHOOSE i \in 1..Len(text) : text[i] = "{" /\ \A j \in 1..(i - 1) : text[j] # "{"
LastClose(text) ==
    CHOOSE i \in 1..Len(text) : text[i] = "}" /\ \A j \in (i + 1)..Len(text) : text[j] # "}"

\* The text from its first "{" to its last "}" inclusive: what is left when the
\* prose before the first "{" and after the last "}" is taken away.
BraceSpan(text) == [i \in 1..(LastClose(text) - FirstOpen(text) + 1) |->
                        text[FirstOpen(text) + i - 1]]

HasBothBraces(text) == HasToken(text, "{") /\ HasToken(text, "}")

\* The text that was decoded is the brace span of the answer, and the record
\* returned is the one returned for the brace span alone.
DecodesBraceSpan ==
    /\ pc = "decode" => json_str = BraceSpan(llm.text)
    /\ pc = "done" => ret = RecordForText(BraceSpan(llm.text), llm.payload)

\* C11 as stated: for any model text containing a '{' and a '}', what is
\* decoded is exactly the text from the first '{' to the last '}' inclusive,
\* so prose before the first '{' or after the last '}' never changes the
\* returned record.
C11_DecodesFirstOpenToLastClose ==
    (AnsweredText /\ HasBothBraces(llm.text)) =>
        /\ pc = "decode" => (json_str # <<>> /\ json_str = BraceSpan(llm.text))
        /\ pc = "done" =>
              (/\ LastClose(llm.text) > FirstOpen(llm.text)
               /\ ret = RecordForText(BraceSpan(llm.text), llm.payload))

\* C11 as amended: the same, for the texts whose first '{' comes before
\* their last '}'.
C11_DecodesBraceSpanWhenOrdered ==
    (AnsweredText /\ HasBothBraces(llm.text)
        /\ FirstOpen(llm.text) < LastClose(llm.text)) => DecodesBraceSpan

\* A call ended with a normalized record on an answer that has prose before
\* and after its object: the record is the one of the bare object.
C11_Witness ==
    /\ pc = "done" /\ AnsweredText /\ outcome = "normalized"
    /\ llm.text[1] = "w" /\ llm.text[Len(llm.text)] = "w"
    /\ FirstOpen(llm.text) < LastClose(llm.text)
    /\ ret = RecordForText(<<"{", "m", "}">>, llm.payload)

\* A list of strings of a record, read as a decoded JSON list.
AsStrings(seq) == L([i \in 1..Len(seq) |-> S(seq[i])])

\* A canonical record read as a decoded JSON object: the parsed candidate
\* that json.loads gives for the JSON text of the record.
AsCandidate(rec) ==
    D([authenticity_score |-> I(rec.authenticity_score),
       key_findings |-> AsStrings(rec.key_findings),
       differences |-> AsStrings(rec.differences),
       supporting_evidence |->
          L([i \in 1..Len(rec.supporting_evidence) |->
                D([quote |-> S(rec.supporting_evidence[i].quote),
                   source |-> S(rec.supporting_evidence[i].source)])]),
       score_breakdown |->
          D([factual_accuracy |-> I(rec.score_breakdown.factual_accuracy),
             source_consistency |-> I(rec.score_breakdown.source_consistency),
             detail_accuracy |-> I(rec.score_breakdown.detail_accuracy),
             context_accuracy |-> I(rec.score_breakdown.context_accuracy)]),
       claims_analysis |->
          L([i \in 1..Len(rec.claims_analysis) |->
                D([claim |-> S(rec.claims_analysis[i].claim),
                   classification |-> S(rec.claims_analysis[i].classification),
                   explanation |-> S(rec.claims_analysis[i].explanation),
                   corrected_statement |-> S(rec.claims_analysis[i].corrected_statement),
                   confidence |-> I(rec.claims_analysis[i].confidence)])]),
       bias_detection |->
          D([detected |-> B(rec.bias_detection.detected),
             type |-> S(rec.bias_detection.type),
             indicators |-> AsStrings(rec.bias_detection.indicators)]),
       emotional_manipulation |->
          D([detected |-> B(rec.emotional_manipulation.detected),
             tactics |-> AsStrings(rec.emotional_manipulation.tactics),
             examples |-> AsStrings(rec.emotional_manipulation.examples)]),
       sensational_tone |->
          D([detected |-> B(rec.sensational_tone.detected),
             score |-> I(rec.sensational_tone.score),
             indicators |-> AsStrings(rec.sensational_tone.indicators)])])

\* C12: normalization is idempotent: a record produced by the normalizer, fed
\* back in as the parsed candidate, yields a record equal to it in every field.
C12_NormalizationIdempotent ==
    (pc = "done" /\ outcome = "normalized") => Normalized(AsCandidate(ret)) = ret

\* A normalized record with clamped scores, findings and a claim was returned.
C12_Witness ==
    /\ pc = "done" /\ outcome = "normalized"
    /\ ret.authenticity_score = 100
    /\ Len(ret.key_findings) = ListCap
    /\ Len(ret.claims_analysis) > 0
    /\ ret.score_breakdown.factual_accuracy = 40

\* The model's response gave no decoded object: the call raised, the envelope
\* had no text, or no JSON object could be read from the text.
UnusableResponse == llm.kind # "text" \/ ~Decoded

\* C13: within one call the model is invoked at most once; after a failed or
\* unusable model response the call ends with an ErrorResult and the model is
\* not invoked again.
C13_ModelInvokedAtMostOnce ==
    /\ model_calls <= 1
    /\ (pc = "done" /\ model_calls = 1 /\ UnusableResponse) =>
          /\ outcome = "error"
          /\ FullyPopulated(ret)
          /\ ret.authenticity_score = 0

\* The model call raised and the call ended after that one invocation.
C13_Witness ==
    /\ pc = "done" /\ model_calls = 1 /\ llm.kind = "raises"
    /\ outcome = "error"

\* The model call raised, or its response lacks the message/content fields.
ModelFailed == llm.kind \in {"raises", "none", "no_message", "no_content"}

\* The failure reasons the code writes into key_findings for a failed call.
FailureReasons == {"Invalid response from LLM", AnalysisFailed("ConnectionError")}

\* C14: when the model call raises, or its response lacks the message/content
\* fields, the call returns an ErrorResult: authenticity_score and all four
\* sub-scores are 0, and key_findings and differences are both non-empty and
\* carry a failure reason.
C14_ModelFailureGivesErrorResult ==
    (pc = "done" /\ model_calls = 1 /\ ModelFailed) =>
        /\ outcome = "error"
        /\ ret.authenticity_score = 0
        /\ ret.score_breakdown = ZeroBreakdown
        /\ Len(ret.key_findings) > 0 /\ ret.key_findings[1] \in FailureReasons
        /\ Len(ret.differences) > 0 /\ ret.differences[1] = "Analysis failed"

\* A response without a message field was answered with the ErrorResult.
C14_Witness ==
    /\ pc = "done" /\ model_calls = 1 /\ llm.kind = "no_message"
    /\ ret = create_error_response("Invalid response from LLM")

\* A '{' and a '}' both occur in the stripped model text.
Located(text) == Find(Strip(text), "{") # -1 /\ RFind(Strip(text), "}") # -1

\* The located substring of the model text does not decode.
DecodeFails(text, payload) ==
    /\ Located(text)
    /\ LET stripped == Strip(text)
       IN JsonLoads(PySlice(stripped, Find(stripped, "{"), RFind(stripped, "}") + 1),
                    payload).exc # "none"

\* Extraction failed: nothing located, or the located substring did not decode.
ExtractionFailed == ~Located(llm.text) \/ DecodeFails(llm.text, llm.payload)

\* C15: on every extraction failure, whether no JSON object can be located in
\* the model text or the located substring fails to decode, the call returns
\* an ErrorResult whose reason states that JSON could not be found in the
\* model response.
C15_ExtractionFailureSaysNotFound ==
    (pc = "done" /\ AnsweredText /\ ExtractionFailed) =>
        ret = create_error_response("Could not find JSON in LLM response")

\* C15, as the code has it: an ErrorResult in both cases; the reason is that
\* JSON could not be found when no '{' or no '}' occurs in the text, and that
\* the response failed to parse when the located substring does not decode.
C15_ExtractionFailureReasons ==
    (pc = "done" /\ AnsweredText /\ ExtractionFailed) =>
        /\ outcome = "error"
        /\ ret = create_error_response(
                    IF Located(llm.text)
                    THEN "Failed to parse LLM response"
                    ELSE "Could not find JSON in LLM response")

\* A located substring that does not decode was answered with the parse
\* failure reason.
C15_Witness ==
    /\ pc = "done" /\ AnsweredText
    /\ DecodeFails(llm.text, llm.payload)
    /\ ret.key_findings = <<"Failed to parse LLM response">>

\* The endpoint has answered.
Responded == handler = "responded"

\* C16: every request to /analyze_authenticity is answered with HTTP 200 and a
\* body with the same set of keys as a VerificationResult, whatever fails
\* behind it; failure shows only as score 0 and explanatory text.
C16_AlwaysOkWithFullShape ==
    Responded =>
        /\ status = 200
        /\ KeysOf(body) = TopKeySet

\* C17: the result returned by the endpoint does not depend on persistence
\* succeeding: when storing fails for an authenticated caller, the caller
\* still receives the analysis that analyze_authenticity computed.
C17_AnswerIndependentOfPersistence ==
    (Responded /\ pc = "done" /\ outcome # "raised" /\ request.authenticated) =>
        body = ret

\* The call has returned or raised.
CallEnded == pc = "done"

\* C18: every call of analyze_authenticity eventually returns: the model
\* invocation is bounded by a finite timeout, so a model that never answers
\* cannot make the call hang.  The call has no loop, so it returns exactly
\* when it never stops before its end with no step left to take.
C18_CallNeverHangs == CallEnded \/ ENABLED Next

\* What one call returns, as a function of its own arguments and its own
\* model: the way it ends and the record.
OwnResult(call) ==
    LET way == BeforeModel(call.original_news, call.verified_articles)
    IN IF way = "raised" THEN [outcome |-> "raised", ret |-> NoRecord]
       ELSE IF way = "short_circuit"
       THEN [outcome |-> "returned", ret |-> NoReferenceRecord]
       ELSE [outcome |-> "returned", ret |-> RecordForReply(call.llm)]

\* The single call agrees with the functions the calls side by side use.
SingleCallAgrees ==
    (pc = "done") =>
        /\ (outcome = "raised") = (OwnResult([original_news |-> original_news,
               verified_articles |-> verified_articles, llm |-> llm]).outcome = "raised")
        /\ ret = OwnResult([original_news |-> original_news,
               verified_articles |-> verified_articles, llm |-> llm]).ret

NonEmptyContents(articles) ==
    LET kept == SelectSeq(articles,
                   LAMBDA a : a.d.content.t # "absent" /\ PyBool(a.d.content))
    IN [i \in 1..Len(kept) |-> kept[i].d.content]

\* Texts joined by single spaces.
RECURSIVE Joined(_)
Joined(texts) ==
    IF texts = <<>> THEN ""
    ELSE IF Len(texts) = 1 THEN texts[1].s
    ELSE texts[1].s \o " " \o Joined(Tail(texts))

\* The first three non-empty contents.
UsedReferences == SubSeq(NonEmptyContents(verified_articles), 1,
                         Min(RefCap, Len(NonEmptyContents(verified_articles))))

\* The prompt was built from the first one to three non-empty contents.
PromptFromUsedReferences ==
    /\ Len(UsedReferences) \in 1..RefCap
    /\ \A i \in 1..Len(UsedReferences) : UsedReferences[i].t = "str"
    /\ prompt.trusted = Joined(UsedReferences)

\* C20: the prompt is built, and the model invoked, only with between one and
\* three reference texts, the first three non-empty contents in input order;
\* a reference list with no non-empty content never reaches the prompt builder
\* or the model and yields the short-circuit result.
C20_PromptOnlyFromReferences ==
    /\ prompt # NoRecord => PromptFromUsedReferences
    /\ model_calls > 0 => prompt # NoRecord
    /\ NonEmptyContents(verified_articles) = <<>> =>
          /\ prompt = NoRecord /\ model_calls = 0
          /\ pc = "done" => (outcome = "short_circuit" /\ ret = NoReferenceRecord)

\* The key is missing from the object (a key of the model that is "absent").
Lacks(item, key) == key \notin DOMAIN item.d \/ item.d[key].t = "absent"

\* text is the string form of the scalar v, written out type by type.
IsStringOf(text, v) ==
    /\ v.t = "str" => text = v.s
    /\ v.t = "int" => text = IntStr(v.n)
    /\ v.t = "null" => text = "None"

\* The entry out was built from the evidence object item.
EvidencePair(out, item) ==
    /\ DOMAIN out = {"quote", "source"}
    /\ IF Lacks(item, "source") THEN out.source = "Unknown"
       ELSE IsStringOf(out.source, item.d.source)
    /\ IF Lacks(item, "quote") THEN out.quote = ""
       ELSE IsStringOf(out.quote, item.d.quote)

\* C21: each supporting_evidence entry of a normalized result is a pair with
\* exactly the keys quote and source, both strings; when the candidate's entry
\* has no source the value is "Unknown", and when it has no quote the value is
\* the empty string.
C21_EvidenceEntriesArePairs ==
    (pc = "done" /\ outcome = "normalized" /\ result.d.supporting_evidence.t = "list") =>
        LET l == result.d.supporting_evidence.l
            pos == ObjectPositions(l, ListCap)
        IN /\ Len(ret.supporting_evidence) = Len(pos)
           /\ \A j \in 1..Len(pos) : EvidencePair(ret.supporting_evidence[j], l[pos[j]])

\* An evidence object with a quote and no source came out with source "Unknown".
C21_Witness ==
    /\ pc = "done" /\ outcome = "normalized"
    /\ result.d.supporting_evidence.t = "list"
    /\ \E j \in 1..Len(ret.supporting_evidence) :
          /\ ret.supporting_evidence[j] = [quote |-> "q", source |-> "Unknown"]
          /\ \E i \in 1..Len(result.d.supporting_evidence.l) :
                /\ result.d.supporting_evidence.l[i].t = "dict"
                /\ Lacks(result.d.supporting_evidence.l[i], "source")

\* The classifications of the enumeration.
Classifications == {"verified_true", "misleading", "false", "unverified"}

\* C22: a claim's classification is passed through as a string without
\* membership validation: any value the model supplies, also one outside the
\* enumeration, appears unchanged (as its string form) in the result, and an
\* absent classification becomes "unverified".  (The result is the normalized
\* record; a call that ends in an ErrorResult returns no claims.)
C22_ClassificationPassedThrough ==
    (pc = "done" /\ outcome = "normalized" /\ result.d.claims_analysis.t = "list") =>
        LET l == result.d.claims_analysis.l
            pos == ObjectPositions(l, ClaimCap)
        IN /\ Len(ret.claims_analysis) = Len(pos)
           /\ \A j \in 1..Len(pos) :
                 IF Lacks(l[pos[j]], "classification")
                 THEN ret.claims_analysis[j].classification = "unverified"
                 ELSE IsStringOf(ret.claims_analysis[j].classification,
                                 l[pos[j]].d.classification)

\* A classification outside the enumeration came out unchanged.
C22_Witness ==
    /\ pc = "done" /\ outcome = "normalized"
    /\ \E j \in 1..Len(ret.claims_analysis) :
          /\ ret.claims_analysis[j].classification = "bogus"
          /\ ret.claims_analysis[j].classification \notin Classifications

\* Detection fails, is unavailable or yields an unsupported code.
DetectionFails ==
    \/ ~MULTILINGUAL_ENABLED
    \/ language_env.detect = "raises"
    \/ language_env.detect \notin SUPPORTED_LANGUAGES

\* Translation fails or is unavailable.
TranslationFails == ~MULTILINGUAL_ENABLED \/ language_env.translate = "raises"

\* C23: language detection and translation never raise and pass through on
\* failure: detect_language always returns one of 'en', 'hi', 'mr', and 'en'
\* when detection fails, is unavailable or yields an unsupported code; the
\* translate functions return the input text unchanged when translation fails
\* or is unavailable.
C23_LanguageFunctionsPassThrough ==
    language_pc = "done" =>
        /\ language_call.fn = "detect_language" =>
              /\ DOMAIN language_ret = {"code"}
              /\ language_ret.code \in {"en", "hi", "mr"}
              /\ DetectionFails => language_ret.code = "en"
        /\ language_call.fn = "translate_to_english" =>
              /\ DOMAIN language_ret = {"text", "lang"}
              /\ TranslationFails => language_ret.text = language_call.text
        /\ language_call.fn = "translate_from_english" =>
              /\ DOMAIN language_ret = {"text"}
              /\ TranslationFails => language_ret.text = language_call.text

\* A Hindi text whose translation raised came back unchanged.
C23_Witness ==
    /\ language_pc = "done"
    /\ language_call.fn = "translate_to_english"
    /\ language_call.text = "namaste"
    /\ MULTILINGUAL_ENABLED
    /\ language_env = [detect |-> "hi", translate |-> "raises"]
    /\ language_call.lang = "none"
    /\ language_ret = [text |-> "namaste", lang |-> "en"]

\* The positions of the stages.
InvokeStage == {"invoke", "blocked", "envelope"}
ExtractStage == {"locate", "decode"}
NormalizeStage == {Fields[i] : i \in 1..Len(Fields)} \cup {"return"}

\* The three terminal outcomes of the stage diagram.
TerminalOutcomes == {"short_circuit", "normalized", "error"}

\* C24: each call follows the stage order and ends in exactly one terminal
\* outcome: with no references it goes straight to the short-circuit result;
\* otherwise extraction starts only after the model returned text,
\* normalization starts only after extraction succeeded, a failure at any
\* stage ends the call with an ErrorResult, and no stage runs after a
\* terminal outcome.
C24_StageOrder ==
    /\ pc \in InvokeStage \cup ExtractStage \cup NormalizeStage =>
          verified_contents # <<>> /\ prompt # NoRecord
    /\ pc \in ExtractStage \cup NormalizeStage =>
          model_calls = 1 /\ response # NoRecord /\ response.kind = "text"
    /\ pc \in NormalizeStage => result # NoRecord
    /\ (outcome # "pending") = (pc = "done")
    /\ pc = "done" =>
          /\ outcome \in TerminalOutcomes
          /\ outcome = "short_circuit" =>
                verified_contents = <<>> /\ model_calls = 0 /\ ret = NoReferenceRecord
          /\ outcome = "normalized" => result # NoRecord /\ ret = analysis
          /\ outcome = "error" => ret.authenticity_score = 0 /\ FullyPopulated(ret)
          /\ ~ENABLED Next

\* The sub-score k of the candidate's score_breakdown, 0 when it is missing.
GivenSubScore(k) == Get(result.d.score_breakdown, k, I(0))

\* C25: the four sub-scores are coerced and clamped separately: when one
\* sub-score of the candidate cannot be coerced to an integer, that sub-score
\* is 0 and the other three keep their own clamped values.
\* (Stated for calls that returned a normalized record.)
C25_SubScoresCoercedSeparately ==
    (/\ pc = "done" /\ outcome = "normalized"
     /\ result.d.score_breakdown.t = "dict"
     /\ \E k \in DOMAIN ZeroBreakdown : NotNumeric(GivenSubScore(k))) =>
        \A k \in DOMAIN ZeroBreakdown :
            /\ NotNumeric(GivenSubScore(k)) => ret.score_breakdown[k] = 0
            /\ GivenSubScore(k).t = "int" =>
                  ret.score_breakdown[k] = Saturate(0, SubScoreMax(k), GivenSubScore(k).n)

\* The defaults of section 3, key by key.
Defaults ==
    [authenticity_score |-> 0,
     key_findings |-> <<>>,
     differences |-> <<>>,
     supporting_evidence |-> <<>>,
     score_breakdown |-> [factual_accuracy |-> 0, source_consistency |-> 0,
                          detail_accuracy |-> 0, context_accuracy |-> 0],
     claims_analysis |-> <<>>,
     bias_detection |-> [detected |-> FALSE, type |-> "none", indicators |-> <<>>],
     emotional_manipulation |-> [detected |-> FALSE, tactics |-> <<>>, examples |-> <<>>],
     sensational_tone |-> [detected |-> FALSE, score |-> 0, indicators |-> <<>>]]

\* Every key that the candidate lacks has its default in the record rec.
AbsentKeysDefault(rec) ==
    \A k \in TopKeySet : result.d[k].t = "absent" => rec[k] = Defaults[k]

\* C26: every top-level key absent from the decoded candidate takes its
\* template default, in the record that is being filled in and in the
\* normalized record that is returned; the empty object {} yields the record
\* of all defaults, which differs from an ErrorResult by its empty
\* key_findings and differences.
C26_AbsentKeysTakeDefaults ==
    /\ (Decoded /\ analysis # NoRecord) => AbsentKeysDefault(analysis)
    /\ (pc = "done" /\ outcome = "normalized") => AbsentKeysDefault(ret)
    /\ (pc = "done" /\ Decoded /\ result = EmptyObject) =>
          /\ outcome = "normalized"
          /\ ret = Defaults
          /\ ret.key_findings = <<>> /\ ret.differences = <<>>
          /\ create_error_response("reason").key_findings # <<>>
          /\ create_error_response("reason").differences # <<>>

\* The empty object was decoded and the record of all defaults returned.
C26_Witness ==
    /\ pc = "done" /\ outcome = "normalized"
    /\ result = EmptyObject
    /\ ret = Defaults

\* The detected flag the candidate gives for the detection record key.
GivenFlag(key) ==
    IF result # NoRecord /\ result.d[key].t = "dict"
    THEN Get(result.d[key], "detected", Absent)
    ELSE Absent

\* The flag the claim gives for the value v: absent, false, 0, the empty
\* string and the empty list give false, every other value true.
Truthy(v) ==
    /\ v.t # "absent"
    /\ v # B(FALSE) /\ v # I(0) /\ v # S("") /\ v # L(<<>>)

DetectionKeys == {"bias_detection", "emotional_manipulation", "sensational_tone"}

\* C27: in every returned record the detected flag of bias_detection,
\* emotional_manipulation and sensational_tone is a boolean, equal to the
\* truthiness of the candidate's value: absent, false, 0, empty string or
\* empty list give false, and every other value, including the string
\* "false", gives true.
C27_DetectedFlagsAreTruthiness ==
    Returned =>
        \A key \in DetectionKeys :
            /\ key \in KeysOf(ret)
            /\ ret[key].detected \in BOOLEAN
            /\ ret[key].detected = Truthy(GivenFlag(key))

(***************************************************************************)
(* C28: truncation comes before the filter                                 *)
(***************************************************************************)

\* The positions after the first cap entries of l that hold an object.
LateObjects(l, cap) == {i \in (cap + 1)..Len(l) : l[i].t = "dict"}

\* The entry at position i of l builds a pair that no object among the first
\* cap entries builds.
LateEvidenceDistinct(l, cap, i) ==
    \A p \in 1..Min(cap, Len(l)) :
        l[p].t = "dict" => EvidenceEntry(l[p]) # EvidenceEntry(l[i])

ClaimText(claim) == PyStr(Get(claim, "claim", S("")))

LateClaimDistinct(l, cap, i) ==
    \A p \in 1..Min(cap, Len(l)) :
        l[p].t = "dict" => ClaimText(l[p]) # ClaimText(l[i])

\* C28: in a normalized record supporting_evidence (claims_analysis) holds
\* exactly the entries built from the objects among the first 3 (10) entries
\* of the candidate's list, in order, and an object located after those
\* first entries never appears, even when earlier entries were dropped.
C28_TruncatedBeforeFiltered ==
    (pc = "done" /\ outcome = "normalized") =>
        /\ result.d.supporting_evidence.t = "list" =>
              LET l == result.d.supporting_evidence.l
              IN /\ EvidenceFrom(ret.supporting_evidence, l, ObjectPositions(l, ListCap))
                 /\ \A i \in LateObjects(l, ListCap) :
                        LateEvidenceDistinct(l, ListCap, i) =>
                            \A j \in 1..Len(ret.supporting_evidence) :
                                ret.supporting_evidence[j] # EvidenceEntry(l[i])
        /\ result.d.claims_analysis.t = "list" =>
              LET l == result.d.claims_analysis.l
              IN /\ ClaimsFrom(ret.claims_analysis, l, ObjectPositions(l, ClaimCap))
                 /\ \A i \in LateObjects(l, ClaimCap) :
                        LateClaimDistinct(l, ClaimCap, i) =>
                            \A j \in 1..Len(ret.claims_analysis) :
                                ret.claims_analysis[j].claim # ClaimText(l[i])

\* An evidence list of four entries with a non-object among the first three
\* and an object in fourth place was normalized: the record holds the two
\* objects of the prefix and not the fourth entry.
C28_Witness ==
    /\ pc = "done" /\ outcome = "normalized"
    /\ result.d.supporting_evidence.t = "list"
    /\ LET l == result.d.supporting_evidence.l
       IN /\ Len(l) = ListCap + 1
          /\ \E p \in 1..ListCap : l[p].t # "dict"
          /\ l[ListCap + 1].t = "dict"
          /\ LateEvidenceDistinct(l, ListCap, ListCap + 1)
          /\ Len(ret.supporting_evidence) = ListCap - 1
          /\ \A j \in 1..Len(ret.supporting_evidence) :
                ret.supporting_evidence[j] # EvidenceEntry(l[ListCap + 1])

(***************************************************************************)
(* C29: verify_text_with_llama                                             *)
(***************************************************************************)
TextResultKeys == {"credibility_score", "verdict", "claims", "red_flags",
                   "recommendations", "summary", "original_language"}
TextAnswerKeys == TextResultKeys \ {"original_language"}

\* The ways the call fails, read off what ollama.chat does.
TextChatRaises == text_llm.kind = "raises"
TextLacksContent ==
    text_llm.kind \in {"none", "no_message", "bad_message", "no_content", "content_null"}
TextNoSpan ==
    /\ text_llm.kind = "text"
    /\ \/ Find(Strip(text_llm.text), "{") = -1
       \/ RFind(Strip(text_llm.text), "}") = -1
TextSpan ==
    PySlice(Strip(text_llm.text), Find(Strip(text_llm.text), "{"),
            RFind(Strip(text_llm.text), "}") + 1)
TextDecodeFails ==
    /\ text_llm.kind = "text"
    /\ ~TextNoSpan
    /\ JsonLoads(TextSpan, text_llm.payload).exc # "none"
TextFails == TextChatRaises \/ TextLacksContent \/ TextNoSpan \/ TextDecodeFails

\* The object decoded by a call that does not fail.
TextDecoded == JsonLoads(TextSpan, text_llm.payload).v

TextMissing(key) == key \notin DOMAIN TextDecoded.d \/ TextDecoded.d[key].t = "absent"

\* The call ended, by returning a record with exactly the seven keys; after
\* a failure the record is the fixed fallback.
TextReturnsShape ==
    /\ text_outcome \in {"pending", "verified", "fallback"}
    /\ text_pc = "done" =>
          /\ text_outcome # "pending"
          /\ KeysOf(text_ret) = TextResultKeys
          /\ text_ret.original_language = text_lang
          /\ TextFails =>
                /\ text_ret = TextFallbackResult(text_lang)
                /\ text_ret.credibility_score = I(50)
                /\ text_ret.verdict = S("Needs Verification")
                /\ text_ret.claims = L(<<>>)

\* C29 as stated: the call never raises and returns a record with exactly
\* the seven keys; every failure gives the fixed fallback; on success a key
\* missing from the decoded object takes the same value as in the fallback
\* and a supplied credibility_score is returned as given.
C29_MissingKeyTakesFallbackValue ==
    /\ TextReturnsShape
    /\ (text_pc = "done" /\ ~TextFails) =>
          /\ \A key \in TextAnswerKeys :
                TextMissing(key) => text_ret[key] = TextFallbackResult(text_lang)[key]
          /\ ~TextMissing("credibility_score") =>
                text_ret.credibility_score = TextDecoded.d.credibility_score

\* The defaults of lines 1041-1046.
TextDefaults ==
    [credibility_score |-> I(50), verdict |-> S("Needs Verification"),
     claims |-> L(<<>>), red_flags |-> L(<<>>), recommendations |-> L(<<>>),
     summary |-> S("Analysis completed")]

\* C29 as amended: the call never raises and returns a record with exactly
\* the seven keys; every failure gives the fixed fallback; on success a
\* missing key takes the default of the success path (50, "Needs
\* Verification", empty claims, empty red_flags, empty recommendations,
\* "Analysis completed"), a supplied key is returned as given, and the
\* credibility_score is not clamped.
C29_MissingKeyTakesSuccessDefault ==
    /\ TextReturnsShape
    /\ (text_pc = "done" /\ ~TextFails) =>
          \A key \in TextAnswerKeys :
              text_ret[key] = IF TextMissing(key) THEN TextDefaults[key]
                              ELSE TextDecoded.d[key]

\* A call decoded an object without summary and with credibility_score 150:
\* the record carries "Analysis completed" and the score 150.
C29_Witness ==
    /\ text_pc = "done" /\ ~TextFails
    /\ TextMissing("summary") /\ TextMissing("red_flags")
    /\ ~TextMissing("credibility_score")
    /\ TextDecoded.d.credibility_score = I(150)
    /\ text_ret.summary = S("Analysis completed")
    /\ text_ret.red_flags = L(<<>>)
    /\ text_ret.credibility_score = I(150)

(***************************************************************************)
(* C30: the local image analysis                                           *)
(***************************************************************************)
\* The call returned a record that is not the error response.
ImageAnalysed == image_pc = "done" /\ image_ret # ImageErrorResponse

\* C30: in every result of _fallback_local_analysis that is not the error
\* response the score is clamped to 0..100, is_ai_generated holds exactly
\* when the score is at least 50, status is "AI-generated" exactly when
\* is_ai_generated holds and "Real" otherwise, confidence is the score when
\* AI-generated and 100 minus the score otherwise and lies in 50..100, and
\* reasons has between 1 and 3 entries.
C30_LocalAnalysisResultConsistent ==
    ImageAnalysed =>
        /\ image_score \in 0..100
        /\ image_ret.is_ai_generated \in BOOLEAN
        /\ image_ret.is_ai_generated <=> image_score >= 50
        /\ image_ret.status = "AI-generated" <=> image_ret.is_ai_generated
        /\ image_ret.status = "Real" <=> ~image_ret.is_ai_generated
        /\ image_ret.is_ai_generated => image_ret.confidence = image_score
        /\ ~image_ret.is_ai_generated => image_ret.confidence = 100 - image_score
        /\ image_ret.confidence \in 50..100
        /\ Len(image_ret.reasons) \in 1..3

\* The sum of the points the checks give to the image, before the clamp.
ImagePoints ==
    50 + (IF image.exif = "none" THEN 15 ELSE 0)
       + (IF image.has_camera THEN -25 ELSE 0) + (IF image.has_gps THEN -20 ELSE 0)
       + (IF image.ai_software THEN 40 ELSE 0)
       + (IF image.info = "signature" THEN 40 ELSE IF image.info = "prompt" THEN 35 ELSE 0)

\* An image whose checks gave more than 100 points and more than three
\* reasons came out "AI-generated" with confidence 100 and three reasons.
C30_Witness ==
    /\ ImageAnalysed
    /\ ImagePoints > 100
    /\ Len(image_reasons) > 3
    /\ image_score = 100
    /\ image_ret.status = "AI-generated"
    /\ image_ret.confidence = 100
    /\ Len(image_ret.reasons) = 3

====
